---------------------------- MODULE Spec2Model ----------------------------
(***************************************************************************)
(* A model of the standards checkers of cursor-guardrails (scripts/).      *)
(*                                                                         *)
(* Text is a sequence of atoms.  An atom is either one of the characters   *)
(* the code looks at (" ", "\t", "\n", "\\", "#", "=") or a run of other   *)
(* characters that no operation of the code splits ("FROM", "python:3.11", *)
(* "pyproject.toml").  A Python str is therefore a Seq(atom), and str      *)
(* methods are modelled by what they do on that sequence.                  *)
(***************************************************************************)
EXTENDS Integers, Sequences, FiniteSets, TLC

VARIABLES
    content,      \* check_dockerfile: the text of the Dockerfile under check
    pc,           \* position of the process that is running
    parsed,       \* check_dockerfile.parse_dockerfile: what the call produced
    runs,         \* check_dockerfile.main: what each run so far printed and returned
    host,         \* check_dockerfile.main: the files the script finds on the host
    validator,    \* validate_service.ServiceValidator: its fields and the locals of validate()
    disk,         \* check_standards: the directories below ./containers, with their files
    disk0,        \* the directories below ./containers as they were when the run began
    standards,    \* check_standards.check_containers: its locals and what it printed
    compose,      \* the parsed docker-compose file given to the compose checkers
    findings,     \* what each compose checker handed back, in the order of the calls
    manager       \* container_manager: the arguments, locals, issued commands and exit status

dockerfileVars == <<content, pc, parsed, runs, host>>

standardsVars == <<disk, disk0, standards>>

composeVars == <<compose, findings>>

\* container_manager: no subcommand of the manager is running
NoCommand == [command |-> ""]

vars == <<dockerfileVars, validator, standardsVars, composeVars, manager>>

-----------------------------------------------------------------------------
(* Python str helpers                                                      *)

SP == " "
TAB == "\t"
NL == "\n"
BS == "\\"
HASH == "#"
EQ == "="

Whitespace == {SP, TAB, NL}

Min(S) == CHOOSE x \in S : \A y \in S : x <= y

Max(S) == CHOOSE x \in S : \A y \in S : x >= y

\* str.lstrip(): drop leading whitespace
lstrip(s) ==
    LET keep == {i \in 1..Len(s) : s[i] \notin Whitespace}
    IN  IF keep = {} THEN <<>> ELSE SubSeq(s, Min(keep), Len(s))

\* str.rstrip(): drop trailing whitespace
rstrip(s) ==
    LET keep == {i \in 1..Len(s) : s[i] \notin Whitespace}
    IN  IF keep = {} THEN <<>> ELSE SubSeq(s, 1, Max(keep))

\* str.strip()
strip(s) == lstrip(rstrip(s))

\* str.rstrip(c): drop every trailing occurrence of the character c
rstrip_char(s, c) ==
    LET keep == {i \in 1..Len(s) : s[i] # c}
    IN  IF keep = {} THEN <<>> ELSE SubSeq(s, 1, Max(keep))

\* str.startswith(prefix)
startswith(s, prefix) ==
    /\ Len(prefix) <= Len(s)
    /\ SubSeq(s, 1, Len(prefix)) = prefix

\* str.endswith(suffix)
endswith(s, suffix) ==
    /\ Len(suffix) <= Len(s)
    /\ SubSeq(s, Len(s) - Len(suffix) + 1, Len(s)) = suffix

\* needle in s
contains(s, needle) ==
    \E i \in 0..(Len(s) - Len(needle)) : SubSeq(s, i + 1, i + Len(needle)) = needle

\* str.split(sep) for a one-character separator: always at least one part
RECURSIVE split_sep(_, _)
split_sep(s, sep) ==
    LET at == {i \in 1..Len(s) : s[i] = sep}
    IN  IF at = {} THEN <<s>>
        ELSE <<SubSeq(s, 1, Min(at) - 1)>>
                 \o split_sep(SubSeq(s, Min(at) + 1, Len(s)), sep)

\* str.split(): the whitespace-delimited words, none of them empty
RECURSIVE split_ws(_)
split_ws(s) ==
    LET t == lstrip(s)
        ws == {i \in 1..Len(t) : t[i] \in Whitespace}
    IN  IF t = <<>> THEN <<>>
        ELSE IF ws = {} THEN <<t>>
        ELSE <<SubSeq(t, 1, Min(ws) - 1)>> \o split_ws(SubSeq(t, Min(ws), Len(t)))

\* str.split(None, 1): the first word, then the rest after the whitespace run
\* that follows it (kept as it is); one part only when there is no rest
split_ws_1(s) ==
    LET t == lstrip(s)
        ws == {i \in 1..Len(t) : t[i] \in Whitespace}
    IN  IF t = <<>> THEN <<>>
        ELSE IF ws = {} THEN <<t>>
        ELSE LET rest == lstrip(SubSeq(t, Min(ws), Len(t)))
             IN  IF rest = <<>> THEN <<SubSeq(t, 1, Min(ws) - 1)>>
                 ELSE <<SubSeq(t, 1, Min(ws) - 1), rest>>

\* sep.join(parts)
RECURSIVE join(_, _)
join(sep, parts) ==
    IF parts = <<>> THEN <<>>
    ELSE IF Len(parts) = 1 THEN parts[1]
    ELSE parts[1] \o sep \o join(sep, Tail(parts))

\* the concatenation of the sequences of ss
RECURSIVE Flatten(_)
Flatten(ss) == IF ss = <<>> THEN <<>> ELSE Head(ss) \o Flatten(Tail(ss))

\* Optional[str]
None == <<>>
Some(x) == <<x>>

-----------------------------------------------------------------------------
(* check_dockerfile.parse_dockerfile                                       *)

\* the locals of parse_dockerfile before its loop; raised is the exception
\* that left the function, "" while there is none
ParseStart ==
    [instructions |-> <<>>, current_instruction |-> None,
     current_args |-> <<>>, raised |-> ""]

\* A plausible slip: a continued line is also emitted as an instruction of
\* its own.
ParseLineEmitsFragment(st, raw) ==
    LET line == strip(raw)
    IN  IF st.raised # "" \/ line = <<>> \/ startswith(line, <<HASH>>) THEN st
        ELSE LET parts == split_ws_1(line)
             IN  IF Len(parts) # 2
                 THEN [st EXCEPT !.raised = "ValueError"]
                 ELSE [st EXCEPT !.instructions =
                          Append(@, <<parts[1], strip(rstrip_char(parts[2], BS))>>)]

\* one pass of the body of the for loop, on the physical line raw
ParseLine(st, raw) ==
    LET line == strip(raw)
    IN  IF st.raised # "" THEN st
        ELSE IF line = <<>> \/ startswith(line, <<HASH>>) THEN st
        ELSE IF endswith(line, <<BS>>)
        THEN IF st.current_instruction = None
             THEN LET parts == split_ws_1(line)
                  IN  IF Len(parts) # 2
                      THEN [st EXCEPT !.raised = "ValueError"]
                      ELSE [st EXCEPT
                              !.current_instruction = Some(parts[1]),
                              !.current_args =
                                  <<strip(rstrip_char(parts[2], BS))>>]
             ELSE [st EXCEPT
                     !.current_args = Append(@, strip(rstrip_char(line, BS)))]
        ELSE IF st.current_instruction # None
        THEN [st EXCEPT
                !.instructions =
                    Append(@, <<st.current_instruction[1],
                                join(<<SP>>, Append(st.current_args, line))>>),
                !.current_instruction = None,
                !.current_args = <<>>]
        ELSE LET parts == split_ws_1(line)
             IN  IF Len(parts) # 2
                 THEN [st EXCEPT !.raised = "ValueError"]
                 ELSE [st EXCEPT
                         !.instructions = Append(@, <<parts[1], parts[2]>>)]

RECURSIVE ParseLines(_, _)
ParseLines(st, lines) ==
    IF lines = <<>> THEN st
    ELSE ParseLines(ParseLine(st, Head(lines)), Tail(lines))

\* parse_dockerfile(content): value is the list returned, raised the
\* exception that escaped instead ("" when the call returned)
parse_dockerfile(text) ==
    LET st == ParseLines(ParseStart, split_sep(text, NL))
    IN  [raised |-> st.raised,
         value |-> IF st.raised = "" THEN st.instructions ELSE <<>>]

NotParsed == [raised |-> "", value |-> <<>>]

\* a host on which DOCKERFILE_TEMPLATE can be read and ./Dockerfile is a file
AnyHost == [template_ok |-> TRUE, is_file |-> TRUE]

-----------------------------------------------------------------------------
(* check_dockerfile: the six checks                                        *)

\* one error string: the fixed text and the name formatted into it
Err(msg) == [msg |-> msg, arg |-> <<>>]
ErrFor(msg, name) == [msg |-> msg, arg |-> name]

RECURSIVE Rotate(_, _)
Rotate(seq, n) ==
    IF n = 0 \/ seq = <<>> THEN seq ELSE Rotate(Append(Tail(seq), Head(seq)), n - 1)

\* The order in which a for loop visits a set of str.  CPython orders a set
\* by the hashes of its elements, and str hashes are salted per process
\* (PYTHONHASHSEED, random unless set): the order is an unspecified function
\* of the seed.  The model takes the rotations of the source order as the
\* orders the seeds produce.
set_iteration(items, seed) == Rotate(items, seed % (Len(items) + 1))

check_base_image(instructions) ==
    IF instructions = <<>> \/ instructions[1][1] # <<"FROM">>
    THEN <<Err("Dockerfile must start with FROM instruction")>>
    ELSE IF ~startswith(instructions[1][2], <<"python:3.11">>)
    THEN <<Err("Base image must be python:3.11")>>
    ELSE <<>>

required_env_vars ==
    << <<"PYTHONUNBUFFERED">>, <<"PYTHONDONTWRITEBYTECODE">>, <<"POETRY_VERSION">>,
       <<"POETRY_HOME">>, <<"POETRY_VIRTUALENVS_IN_PROJECT">>,
       <<"POETRY_NO_INTERACTION">>, <<"PYSETUP_PATH">>, <<"VENV_PATH">> >>

\* A plausible slip: only the KEY=VALUE form is handled.
env_key_eq_only(args) == strip(split_sep(args, EQ)[1])

\* the key of one ENV instruction (lines 83-86)
env_key(args) ==
    IF contains(args, <<EQ>>)
    THEN strip(split_sep(args, EQ)[1])
    ELSE strip(split_ws(args)[1])

found_env_vars(instructions) ==
    {env_key(instructions[i][2]) :
        i \in {j \in 1..Len(instructions) : instructions[j][1] = <<"ENV">>}}

check_environment_variables(instructions, seed) ==
    LET found == found_env_vars(instructions)
        order == set_iteration(required_env_vars, seed)
        Missing(var) == var \notin found
        missing == SelectSeq(order, Missing)
    IN  [i \in 1..Len(missing) |->
            ErrFor("Missing required environment variable", missing[i])]

check_poetry_installation(instructions) ==
    IF \E i \in 1..Len(instructions) :
           /\ instructions[i][1] = <<"RUN">>
           /\ contains(instructions[i][2],
                       <<"curl", SP, "-sSL", SP, "https://install.python-poetry.org">>)
    THEN <<>>
    ELSE <<Err("Poetry installation command not found")>>

check_dependencies_installation(instructions) ==
    LET IsCopy(i) ==
            /\ instructions[i][1] = <<"COPY">>
            /\ contains(instructions[i][2], <<"pyproject.toml">>)
            /\ contains(instructions[i][2], <<"poetry.lock">>)
        copy_requirements_found == \E i \in 1..Len(instructions) : IsCopy(i)
        poetry_install_found ==
            \E i \in 1..Len(instructions) :
                /\ ~IsCopy(i)
                /\ instructions[i][1] = <<"RUN">>
                /\ contains(instructions[i][2], <<"poetry", SP, "install">>)
    IN  (IF copy_requirements_found THEN <<>>
         ELSE <<Err("Must copy pyproject.toml and poetry.lock files")>>)
        \o
        (IF poetry_install_found THEN <<>>
         ELSE <<Err("Must install dependencies using poetry install")>>)

check_healthcheck(instructions) ==
    LET hc == {i \in 1..Len(instructions) : instructions[i][1] = <<"HEALTHCHECK">>}
    IN  IF hc = {} THEN <<Err("Healthcheck configuration not found")>>
        ELSE LET args == instructions[Min(hc)][2]
             IN  IF \/ ~contains(args, <<"--interval">>)
                    \/ ~contains(args, <<"--timeout">>)
                    \/ ~contains(args, <<"--retries">>)
                 THEN <<Err("Healthcheck must specify interval, timeout, and retries")>>
                 ELSE <<>>

required_labels == << <<"maintainer">>, <<"version">>, <<"description">> >>

\* A plausible slip: only the first LABEL instruction is read.
found_labels_first_only(instructions) ==
    LET at == {j \in 1..Len(instructions) : instructions[j][1] = <<"LABEL">>}
        labels == IF at = {} THEN <<>> ELSE split_ws(instructions[Min(at)][2])
    IN  {strip(split_sep(labels[k], EQ)[1]) :
            k \in {n \in 1..Len(labels) : contains(labels[n], <<EQ>>)}}

found_labels(instructions) ==
    UNION { LET labels == split_ws(instructions[i][2])
            IN  {strip(split_sep(labels[k], EQ)[1]) :
                    k \in {n \in 1..Len(labels) : contains(labels[n], <<EQ>>)}}
            : i \in {j \in 1..Len(instructions) : instructions[j][1] = <<"LABEL">>} }

check_labels(instructions, seed) ==
    LET found == found_labels(instructions)
        order == set_iteration(required_labels, seed)
        Missing(label) == label \notin found
        missing == SelectSeq(order, Missing)
    IN  [i \in 1..Len(missing) |-> ErrFor("Missing required label", missing[i])]

-----------------------------------------------------------------------------
(* check_dockerfile.main                                                   *)

\* one printed line: the check it belongs to, its text, the name in it
Line(check, msg, arg) == [check |-> check, msg |-> msg, arg |-> arg]

\* what one check adds to the output (lines 196-201)
Report(check_name, errors) ==
    IF errors = <<>> THEN <<>>
    ELSE <<Line(check_name, "errors:", <<>>)>>
         \o [i \in 1..Len(errors) |-> Line(check_name, errors[i].msg, errors[i].arg)]

\* main(): seed is the hash seed of the process; template_ok and is_file
\* say whether DOCKERFILE_TEMPLATE can be read and ./Dockerfile is a file
main(text, seed, template_ok, is_file) ==
    IF ~template_ok
    THEN [printed |-> <<Line("", "Error: ", <<"FileNotFoundError">>)>>, exit_code |-> 1]
    ELSE IF ~is_file
    THEN [printed |-> <<Line("", "Error: Dockerfile not found", <<>>)>>, exit_code |-> 1]
    ELSE LET got == parse_dockerfile(text)
             instructions == got.value
             printed ==
                 Report("Base image", check_base_image(instructions))
                 \o Report("Environment variables",
                           check_environment_variables(instructions, seed))
                 \o Report("Poetry installation",
                           check_poetry_installation(instructions))
                 \o Report("Dependencies installation",
                           check_dependencies_installation(instructions))
                 \o Report("Healthcheck", check_healthcheck(instructions))
                 \o Report("Labels", check_labels(instructions, seed))
         IN  IF got.raised # ""
             THEN [printed |-> <<Line("", "Error: ", <<got.raised>>)>>, exit_code |-> 1]
             ELSE [printed |-> printed,
                   exit_code |-> IF printed = <<>> THEN 0 ELSE 1]

-----------------------------------------------------------------------------
(* Dockerfiles given to main                                               *)

MaxHashSeed == 1

HashSeeds == 0..MaxHashSeed

FromLine(image) == <<"FROM", SP>> \o image

EnvEqLine(key) == <<"ENV", SP>> \o key \o <<EQ, "1">>

EnvSpLine(key) == <<"ENV", SP>> \o key \o <<SP, "1">>

InstallerLine ==
    <<"RUN", SP, "curl", SP, "-sSL", SP, "https://install.python-poetry.org",
      SP, "|", SP, "python3", SP, "-">>

PoetryInstallLine == <<"RUN", SP, "poetry", SP, "install", SP, "--no-root">>

CopyBothLine == <<"COPY", SP, "pyproject.toml", SP, "poetry.lock", "*", SP, "./">>

CopyOneLine == <<"COPY", SP, "pyproject.toml", SP, "./">>

HealthOptions ==
    <<"--interval", EQ, "5s", SP, "--timeout", EQ, "3s", SP, "--retries", EQ, "3">>

LabelToken(key) == key \o <<EQ, "x">>

\* the lines each choice puts into the Dockerfile
FromLines(c) ==
    CASE c = "python" -> <<FromLine(<<"python:3.11", "-slim">>)>>
      [] c = "node" -> <<FromLine(<<"node:18">>)>>
      [] OTHER -> <<>>

EnvLines(c) ==
    CASE c = "eq" -> [i \in 1..Len(required_env_vars) |-> EnvEqLine(required_env_vars[i])]
      [] c = "space" ->
             [i \in 1..Len(required_env_vars) |-> EnvSpLine(required_env_vars[i])]
      [] c = "two_missing" ->
             [i \in 1..(Len(required_env_vars) - 2) |-> EnvEqLine(required_env_vars[i + 2])]
      [] c = "one_instruction" ->
             \* every key in one ENV instruction, spread over continuation lines
             [i \in 1..Len(required_env_vars) |->
                 (IF i = 1 THEN <<"ENV", SP>> ELSE <<SP, SP>>)
                 \o required_env_vars[i] \o <<EQ, "1">>
                 \o (IF i = Len(required_env_vars) THEN <<>> ELSE <<SP, BS>>)]
      [] OTHER -> <<>>

HealthLines(c) ==
    CASE c = "full" -> <<<<"HEALTHCHECK", SP>> \o HealthOptions \o <<SP, "CMD", SP, "true">>>>
      [] c = "continued" ->
             << <<"HEALTHCHECK", SP>> \o HealthOptions \o <<SP, BS>>,
                <<SP, SP, "CMD", SP, "true">> >>
      [] c = "partial" -> <<<<"HEALTHCHECK", SP, "--interval", EQ, "5s", SP, "CMD", SP, "true">>>>
      [] OTHER -> <<>>

LabelLines(c) ==
    CASE c = "one" ->
             <<<<"LABEL", SP>> \o LabelToken(<<"maintainer">>) \o <<SP>>
                 \o LabelToken(<<"version">>) \o <<SP>> \o LabelToken(<<"description">>)>>
      [] c = "split" ->
             [i \in 1..Len(required_labels) |-> <<"LABEL", SP>> \o LabelToken(required_labels[i])]
      [] c = "only_version" -> <<<<"LABEL", SP>> \o LabelToken(<<"version">>)>>
      [] OTHER -> <<>>

TailLines(c) ==
    CASE c = "cmd" -> <<<<"CMD", SP, "app">>>>
      [] c = "bare" -> <<<<"CMD">>>>
      [] c = "open" -> <<<<"CMD", SP, "app", SP, BS>>>>
      [] OTHER -> <<>>

Dockerfile(from, env, installer, deps, copy, health, labels, tail) ==
    join(<<NL>>,
         FromLines(from) \o EnvLines(env)
         \o (IF installer THEN <<InstallerLine>> ELSE <<>>)
         \o (IF copy = "both" THEN <<CopyBothLine>> ELSE <<CopyOneLine>>)
         \o (IF deps THEN <<PoetryInstallLine>> ELSE <<>>)
         \o HealthLines(health) \o LabelLines(labels) \o TailLines(tail))

DockerfileTexts ==
    {Dockerfile(from, env, installer, deps, copy, health, labels, tail) :
        from \in {"python", "node", "none"},
        env \in {"eq", "space", "two_missing", "one_instruction"},
        installer \in BOOLEAN, deps \in BOOLEAN,
        copy \in {"both", "one"},
        health \in {"full", "continued", "partial", "none"},
        labels \in {"one", "split", "only_version", "none"},
        tail \in {"cmd", "bare", "open"}}

-----------------------------------------------------------------------------
(* validate_service.ServiceValidator                                       *)

\* the names of seq that are not in present, in the order of seq
\* ([f for f in seq if not exists(f)])
Absent(seq, present) ==
    LET Gone(f) == f \notin present
    IN  SelectSeq(seq, Gone)

\* __init__, and the locals of validate() before its loop.  step is the
\* index of the next entry of validations; table holds the rows added.
NewValidator ==
    [errors |-> <<>>, warnings |-> <<>>, table |-> <<>>,
     all_passed |-> TRUE, step |-> 1, returned |-> FALSE]

\* The outcome of one validation method: what it returns, and what it
\* appends to self.errors and self.warnings.  raised is an exception that
\* left the method.
Outcome(passed, errors, warnings) ==
    [passed |-> passed, errors |-> errors, warnings |-> warnings, raised |-> FALSE]

Raised == [passed |-> FALSE, errors |-> <<>>, warnings |-> <<>>, raised |-> TRUE]

required_files == <<"Dockerfile", "pyproject.toml", "src", "tests", "README.md">>

required_test_dirs == <<"unit", "integration">>

\* the name of the service: the last part of service_path
service_name == "service"

\* validate_structure: listing is the set of paths (each a sequence of
\* parts) that exist below the service directory; stat_fails says that
\* Path.exists() raised
validate_structure(listing, stat_fails) ==
    LET top == {path[1] : path \in {q \in listing : Len(q) = 1}}
        tests == {path[2] : path \in {q \in listing : Len(q) = 2 /\ q[1] = "tests"}}
        missing_files == Absent(required_files, top)
        missing_test_dirs == Absent(required_test_dirs, tests)
    IN  IF stat_fails THEN Raised
        ELSE IF missing_files # <<>>
        THEN Outcome(FALSE,
                     <<ErrFor("Missing required files/directories", missing_files)>>, <<>>)
        ELSE IF <<"src", service_name>> \notin listing
        THEN Outcome(FALSE,
                     <<ErrFor("Missing source directory", <<"src", service_name>>)>>, <<>>)
        ELSE IF missing_test_dirs # <<>>
        THEN Outcome(TRUE, <<>>,
                     <<ErrFor("Missing test directories", missing_test_dirs)>>)
        ELSE Outcome(TRUE, <<>>, <<>>)

required_sections ==
    << <<"tool", "poetry">>, <<"tool", "poetry", "dependencies">>,
       <<"tool", "poetry", "group", "dev", "dependencies">>, <<"build-system">>,
       <<"tool", "pytest", "ini_options">>, <<"tool", "black">>, <<"tool", "isort">>,
       <<"tool", "mypy">>, <<"tool", "coverage", "run">>, <<"tool", "coverage", "report">> >>

\* the walk "for part in parts: if part not in current" succeeds for a
\* section when every prefix of its path is a table of the document
HasSection(tables, section) ==
    \A n \in 1..Len(section) : SubSeq(section, 1, n) \in tables

\* validate_pyproject_toml: tables is the set of table paths of the parsed
\* pyproject.toml; readable is FALSE when a file cannot be opened or parsed
validate_pyproject_toml(tables, readable) ==
    LET Lacking(section) == ~HasSection(tables, section)
        lacking == SelectSeq(required_sections, Lacking)
    IN  IF ~readable
        THEN Outcome(FALSE, <<ErrFor("Error validating pyproject.toml", <<"OSError">>)>>, <<>>)
        ELSE IF lacking # <<>>
        THEN Outcome(FALSE,
                     <<ErrFor("Missing required section in pyproject.toml", Head(lacking))>>,
                     <<>>)
        ELSE Outcome(TRUE, <<>>, <<>>)

required_components ==
    << <<"FROM", SP, "python:3.11", "-slim">>, <<"PYTHONUNBUFFERED", EQ, "1">>,
       <<"POETRY_VERSION">>, <<"HEALTHCHECK">>, <<"EXPOSE">>, <<"CMD">> >>

\* validate_dockerfile: text is the service's Dockerfile
validate_dockerfile(text, readable) ==
    LET Lacking(component) == ~contains(text, component)
        lacking == SelectSeq(required_components, Lacking)
    IN  IF ~readable
        THEN Outcome(FALSE, <<ErrFor("Error validating Dockerfile", <<"OSError">>)>>, <<>>)
        ELSE IF lacking # <<>>
        THEN Outcome(FALSE,
                     <<ErrFor("Missing required component in Dockerfile", Head(lacking))>>,
                     <<>>)
        ELSE Outcome(TRUE, <<>>, <<>>)

\* the names .env.example requires: of every line that is neither blank nor
\* a comment, what stands before the first "="
required_vars(env_example) ==
    LET Wanted(line) == strip(line) # <<>> /\ ~startswith(strip(line), <<HASH>>)
        lines == SelectSeq([i \in 1..Len(env_example) |-> strip(env_example[i])], Wanted)
    IN  [i \in 1..Len(lines) |-> split_sep(lines[i], EQ)[1]]

\* check_environment_variables: env_example is the lines of .env.example,
\* environ the names os.getenv finds set to a non-empty value
check_service_environment(env_example, readable, environ) ==
    LET missing_vars == Absent(required_vars(env_example), environ)
    IN  IF ~readable
        THEN Outcome(FALSE,
                     <<ErrFor("Error checking environment variables", <<"OSError">>)>>, <<>>)
        ELSE IF missing_vars # <<>>
        THEN Outcome(FALSE, <<>>,
                     <<ErrFor("Missing environment variables", Flatten(missing_vars))>>)
        ELSE Outcome(TRUE, <<>>, <<>>)

\* check_container_health: polls is what the status queries made before the
\* timeout gave, one entry per pass of the while loop
RECURSIVE check_container_health(_)
check_container_health(polls) ==
    IF polls = <<>>
    THEN Outcome(FALSE, <<Err("Container health check timed out")>>, <<>>)
    ELSE CASE Head(polls) = "raises" ->
                  Outcome(FALSE, <<ErrFor("Error checking container health", <<"OSError">>)>>,
                          <<>>)
           [] Head(polls) = "healthy" -> Outcome(TRUE, <<>>, <<>>)
           [] Head(polls) = "unhealthy" ->
                  Outcome(FALSE, <<Err("Container health check failed")>>, <<>>)
           [] OTHER -> check_container_health(Tail(polls))

\* the result of one subprocess.run(["./dev", "ps", service_name]) of
\* check_container_health: the call raised, or it gave a return code and
\* an output that holds "Up", "(healthy)", "(unhealthy)" or not
PsResult(raises, returncode, up, healthy, unhealthy) ==
    [raises |-> raises, returncode |-> returncode,
     up |-> up, healthy |-> healthy, unhealthy |-> unhealthy]

\* what the loop body of check_container_health makes of one result
poll_result(result) ==
    IF result.raises THEN "raises"
    ELSE IF result.returncode # 0 THEN "command failed"
    ELSE IF result.up /\ result.healthy THEN "healthy"
    ELSE IF result.up /\ result.unhealthy THEN "unhealthy"
    ELSE "starting"

\* the locals of check_container_health when the loop is entered
HealthStart(errors, timeout) ==
    [errors |-> errors, timeout |-> timeout, elapsed |-> 0, queries |-> <<>>,
     returned |-> FALSE, result |-> FALSE]

\* poll_container with an (unhealthy) observation that is waited out
poll_container_waits(v, result) ==
    LET queried == [v EXCEPT !.queries = Append(@, result)]
        seen == poll_result(result)
    IN  IF seen = "raises"
        THEN [queried EXCEPT
                 !.errors = Append(@, ErrFor("Error checking container health",
                                             <<"OSError">>)),
                 !.returned = TRUE, !.result = FALSE]
        ELSE IF seen = "healthy"
        THEN [queried EXCEPT !.returned = TRUE, !.result = TRUE]
        ELSE [queried EXCEPT !.elapsed = @ + 1]

\* one pass of the loop of check_container_health (lines 193-212): the
\* query, and the return or the sleep of one second that follows it
poll_container(v, result) ==
    LET queried == [v EXCEPT !.queries = Append(@, result)]
        seen == poll_result(result)
    IN  IF seen = "raises"
        THEN [queried EXCEPT
                 !.errors = Append(@, ErrFor("Error checking container health",
                                             <<"OSError">>)),
                 !.returned = TRUE, !.result = FALSE]
        ELSE IF seen = "healthy"
        THEN [queried EXCEPT !.returned = TRUE, !.result = TRUE]
        ELSE IF seen = "unhealthy"
        THEN [queried EXCEPT
                 !.errors = Append(@, Err("Container health check failed")),
                 !.returned = TRUE, !.result = FALSE]
        ELSE [queried EXCEPT !.elapsed = @ + 1]

\* the end of the loop of check_container_health (lines 214-215)
health_timed_out(v) ==
    [v EXCEPT !.errors = Append(@, Err("Container health check timed out")),
              !.returned = TRUE, !.result = FALSE]

\* run_tests: what running run_tests.py gave
run_tests(tests) ==
    CASE tests = "raises" -> Outcome(FALSE, <<ErrFor("Error running tests", <<"OSError">>)>>, <<>>)
      [] tests = "fail" -> Outcome(FALSE, <<Err("Tests failed:"), Err("stderr")>>, <<>>)
      [] OTHER -> Outcome(TRUE, <<>>, <<>>)

validations ==
    <<"Structure", "pyproject.toml", "Dockerfile", "Environment", "Container Health", "Tests">>

\* one pass of the loop of validate() (lines 289-297), the method having
\* had the outcome o
AfterCheck(v, o) ==
    IF o.raised
    THEN [v EXCEPT !.table = Append(@, "Error"),
                   !.all_passed = FALSE,
                   !.step = @ + 1]
    ELSE [v EXCEPT !.errors = @ \o o.errors,
                   !.warnings = @ \o o.warnings,
                   !.table = Append(@, IF o.passed THEN "Passed" ELSE "Failed"),
                   !.all_passed = @ /\ o.passed,
                   !.step = @ + 1]

-----------------------------------------------------------------------------
(* validators.container_validator                                          *)
(*                                                                         *)
(* A container directory is a record: name, its last path part; root, the  *)
(* parts of its path; tree, its entries in the order a directory walk      *)
(* (rglob) yields them, each with its path below the container and its     *)
(* kind ("dir", "py" for a *.py file, "file"); source, the content of each *)
(* *.py file; pyproject, the content of pyproject.toml.                    *)
(* The content of a *.py file is what the validators read of it: whether   *)
(* it parses (ok), whether it is written as black writes it (style), its   *)
(* import-from statements in ast.walk order (each with its level, its      *)
(* module and the line it stands on), and whether it assigns __all__.      *)

EXCLUDED_DIRS ==
    {"__pycache__", "common", "tools", "monitoring", ".pytest_cache", ".git", ".venv",
     "node_modules", "build", "dist", "coverage", ".coverage", ".mypy_cache", ".tox",
     ".eggs"}

\* the path parts of the model that start with "."
DotNames ==
    {".pytest_cache", ".git", ".venv", ".coverage", ".mypy_cache", ".tox", ".eggs",
     ".hidden", ".work", ".."}

\* should_skip_directory(dir_path), on the parts of dir_path
should_skip_directory(parts) ==
    \/ \E i \in 1..Len(parts) : parts[i] \in DotNames
    \/ \E i \in 1..Len(parts) : parts[i] \in EXCLUDED_DIRS

IsUnder(path, dir) == Len(path) > Len(dir) /\ SubSeq(path, 1, Len(dir)) = dir

Parent(path) == SubSeq(path, 1, Len(path) - 1)

\* path.relative_to(dir), for a path below dir
relative_to(path, dir) == SubSeq(path, Len(dir) + 1, Len(path))

Exists(c, path) == \E i \in 1..Len(c.tree) : c.tree[i].path = path

\* dir.rglob("*"), or dir.rglob("*.py") with kinds = {"py"}: the paths
\* below dir, in walk order
rglob(c, dir, kinds) ==
    LET Hit(e) == IsUnder(e.path, dir) /\ e.kind \in kinds
        hits == SelectSeq(c.tree, Hit)
    IN  [i \in 1..Len(hits) |-> hits[i].path]

\* has_python_code(container_path)
has_python_code(c) == rglob(c, <<>>, {"py"}) # <<>> /\ Exists(c, <<"src">>)

\* is_utility_container(container_name)
is_utility_container(name) == name \in {"common", "tools", "monitoring", "resource_monitor"}

\* what format_python_files writes back for a source that parses:
\* black.format_str(src, mode) (lines 66-68)
black_format_str(src) == [src EXCEPT !.style = "black"]

\* format_python_files(container_path): the container with its files
\* formatted, and the errors returned
RECURSIVE format_files(_, _, _)
format_files(c, files, errors) ==
    IF files = <<>> THEN [container |-> c, errors |-> errors]
    ELSE LET py_file == Head(files)
         IN  IF should_skip_directory(c.root \o Parent(py_file))
             THEN format_files(c, Tail(files), errors)
             ELSE IF ~c.source[py_file].ok
             THEN format_files(c, Tail(files),
                               Append(errors, ErrFor("Syntax error in", c.root \o py_file)))
             ELSE format_files(
                      [c EXCEPT !.source[py_file] = black_format_str(c.source[py_file])],
                      Tail(files), errors)

format_python_files(c) == format_files(c, rglob(c, <<>>, {"py"}), <<>>)

\* validate_init_file(init_file)
validate_init_file(c, init_file) ==
    LET src == c.source[init_file]
    IN  IF ~src.ok THEN <<ErrFor("Syntax error in", c.root \o init_file)>>
        ELSE IF ~src.has_all /\ src.imports # <<>>
        THEN <<ErrFor("Missing __all__ definition in", c.root \o init_file)>>
        ELSE <<>>

\* the module names of the model that start with "containers."
ContainersModules == {"containers.pkg"}

\* a finding about an import: its message names the file (arg) and ends
\* with the text of detail
ErrAbout(msg, file, detail) == [msg |-> msg, arg |-> file, detail |-> detail]

\* validate_imports(py_file, package_path)
validate_imports(c, py_file) ==
    LET src == c.source[py_file]
        Flagged(imp) == imp.level > 0 \/ imp.module \in ContainersModules
        flagged == SelectSeq(src.imports, Flagged)
    IN  IF ~src.ok THEN <<ErrFor("Syntax error in", c.root \o py_file)>>
        ELSE [i \in 1..Len(flagged) |->
                 IF flagged[i].level > 0
                 THEN ErrAbout("Relative import found in", c.root \o py_file,
                               <<"from">> \o [k \in 1..flagged[i].level |-> "."]
                               \o <<flagged[i].module, "import", "...">>)
                 ELSE ErrAbout("Deprecated import format in", c.root \o py_file,
                               <<"from", flagged[i].module, "import", "...">>)]

\* validate_python_package(package_path, package_name)
validate_python_package(c, package_path, package_name) ==
    LET root_init == package_path \o <<package_name, "__init__.py">>
        dirs == rglob(c, package_path, {"dir"})
        files == rglob(c, package_path, {"py"})
        OfDir(py_dir) ==
            IF should_skip_directory(c.root \o py_dir) THEN <<>>
            ELSE IF ~Exists(c, py_dir \o <<"__init__.py">>)
            THEN <<ErrFor("Missing __init__.py in Python package directory",
                          relative_to(py_dir, package_path))>>
            ELSE validate_init_file(c, py_dir \o <<"__init__.py">>)
        OfFile(py_file) ==
            IF py_file[Len(py_file)] # "__init__.py"
               /\ ~should_skip_directory(c.root \o Parent(py_file))
            THEN validate_imports(c, py_file)
            ELSE <<>>
    IN  (IF ~Exists(c, root_init) /\ package_name # "tests"
         THEN <<ErrFor("Missing package __init__.py file at",
                       relative_to(root_init, package_path))>>
         ELSE IF Exists(c, root_init) THEN validate_init_file(c, root_init)
         ELSE <<>>)
        \o Flatten([i \in 1..Len(dirs) |-> OfDir(dirs[i])])
        \o Flatten([i \in 1..Len(files) |-> OfFile(files[i])])

\* validate_poetry_configuration(container_path)
validate_poetry_configuration(c) ==
    (IF ~Exists(c, <<"pyproject.toml">>) /\ has_python_code(c)
     THEN <<Err("Missing pyproject.toml (required for Poetry dependency management)")>>
     ELSE <<>>)
    \o (IF Exists(c, <<"requirements.txt">>)
        THEN <<Err("requirements.txt found - should use pyproject.toml with Poetry instead")>>
        ELSE <<>>)
    \o (IF Exists(c, <<"setup.py">>)
        THEN <<Err("setup.py found - should use pyproject.toml with Poetry instead")>>
        ELSE <<>>)

\* validate_container_structure(container_path): the container as the call
\* leaves it, and the errors returned
validate_container_structure(c) ==
    IF c.name \in EXCLUDED_DIRS THEN [container |-> c, errors |-> <<>>]
    ELSE LET formatted ==
                 IF has_python_code(c) THEN format_python_files(c)
                 ELSE [container |-> c, errors |-> <<>>]
             d == formatted.container
             dockerfile ==
                 IF ~is_utility_container(d.name) /\ ~Exists(d, <<"Dockerfile">>)
                 THEN <<Err("Missing required file: Dockerfile")>>
                 ELSE <<>>
             src ==
                 IF has_python_code(d) /\ Exists(d, <<"src">>)
                 THEN validate_python_package(d, <<"src">>, d.name)
                 ELSE <<>>
             tests ==
                 IF has_python_code(d) /\ Exists(d, <<"tests">>)
                 THEN IF ~Exists(d, <<"tests", "__init__.py">>)
                      THEN <<Err("Missing __init__.py in tests directory")>>
                      ELSE validate_python_package(d, <<"tests">>, "tests")
                 ELSE <<>>
         IN  [container |-> d,
              errors |-> formatted.errors \o dockerfile \o src \o tests
                         \o validate_poetry_configuration(d)]

-----------------------------------------------------------------------------
(* validators.poetry_validator                                             *)

REQUIRED_SECTIONS == << <<"tool", "poetry">>, <<"tool", "poetry", "dependencies">> >>

REQUIRED_FIELDS == <<"name", "version", "description">>

\* validate_poetry_config(container_path): True when the configuration is
\* valid, False when it is not (each False comes with a printed error)
validate_poetry_config(c) ==
    /\ Exists(c, <<"pyproject.toml">>)
    /\ ~Exists(c, <<"requirements.txt">>)
    /\ ~Exists(c, <<"setup.py">>)
    /\ c.pyproject.parses
    /\ \A i \in 1..Len(REQUIRED_SECTIONS) : HasSection(c.pyproject.tables, REQUIRED_SECTIONS[i])
    /\ \A i \in 1..Len(REQUIRED_FIELDS) : REQUIRED_FIELDS[i] \in c.pyproject.fields
    /\ c.pyproject.python

\* what validate_poetry_config prints before it returns: the error of the
\* first check that fails (each is followed by "return False"), or nothing
poetry_config_errors(c) ==
    LET Lacking(section) == ~HasSection(c.pyproject.tables, section)
        lacking == SelectSeq(REQUIRED_SECTIONS, Lacking)
        Unset(field) == field \notin c.pyproject.fields
        unset == SelectSeq(REQUIRED_FIELDS, Unset)
    IN  IF ~Exists(c, <<"pyproject.toml">>)
        THEN <<ErrFor("does not exist", c.root \o <<"pyproject.toml">>)>>
        ELSE IF Exists(c, <<"requirements.txt">>)
        THEN <<ErrFor("exists (should use pyproject.toml instead)",
                      c.root \o <<"requirements.txt">>)>>
        ELSE IF Exists(c, <<"setup.py">>)
        THEN <<ErrFor("exists (should use pyproject.toml instead)", c.root \o <<"setup.py">>)>>
        ELSE IF ~c.pyproject.parses
        THEN <<ErrFor("Error parsing pyproject.toml", <<"TOMLDecodeError">>)>>
        ELSE IF lacking # <<>>
        THEN <<ErrFor("Missing section in pyproject.toml", Head(lacking))>>
        ELSE IF unset # <<>>
        THEN <<ErrFor("Missing required field in [tool.poetry]", <<Head(unset)>>)>>
        ELSE IF ~c.pyproject.python
        THEN <<Err("Missing Python version constraint in dependencies")>>
        ELSE <<>>

-----------------------------------------------------------------------------
(* check_standards.check_containers                                        *)

\* the locals of check_containers before its loop: next is the index of the
\* container the loop takes next, log what the validators reported for each
\* container taken, raised the exception that ended the run
StandardsStart ==
    [next |-> 1, all_valid |-> TRUE, log |-> <<>>, raised |-> "",
     compose_errors |-> <<>>, returned |-> FALSE]

\* "if poetry_errors:" followed by "for error in poetry_errors:", on the
\* bool that validate_poetry_config returns (lines 29-34): a True is truthy
\* and cannot be iterated
PoetryStep(all_valid, poetry_errors) ==
    IF poetry_errors
    THEN [all_valid |-> FALSE, raised |-> "TypeError"]
    ELSE [all_valid |-> all_valid, raised |-> ""]

\* one pass of the loop (lines 19-48) on container c; dockerfile is what
\* validate_dockerfile returns for its Dockerfile
CheckOne(st, c, dockerfile) ==
    LET structure == validate_container_structure(c)
        all_valid1 == st.all_valid /\ structure.errors = <<>>
        poetry_errors == validate_poetry_config(structure.container)
        poetry == PoetryStep(all_valid1, poetry_errors)
        has_dockerfile == Exists(structure.container, <<"Dockerfile">>)
        entry == [structure_errors |-> structure.errors,
                  poetry_valid |-> poetry_errors,
                  dockerfile_errors |->
                      IF poetry.raised = "" /\ has_dockerfile THEN dockerfile.errors
                      ELSE <<>>]
    IN  [container |-> structure.container,
         st |-> [st EXCEPT
                   !.next = @ + 1,
                   !.log = Append(@, entry),
                   !.raised = poetry.raised,
                   !.all_valid =
                       IF poetry.raised # "" THEN poetry.all_valid
                       ELSE poetry.all_valid
                            /\ (has_dockerfile => dockerfile.errors = <<>>)]]

-----------------------------------------------------------------------------
(* A parsed YAML document (yaml.safe_load)                                 *)
(*                                                                         *)
(* A value is a record tagged with its Python type: None, a str (a         *)
(* sequence of atoms), a list of values, or a dict, kept as the sequence   *)
(* of its <<key, value>> pairs in insertion order; a key is a str.         *)

YNull == [kind |-> "null"]

YStr(s) == [kind |-> "str", str |-> s]

YList(elems) == [kind |-> "list", elems |-> elems]

YDict(items) == [kind |-> "dict", items |-> items]

\* a str literal of the code that no operation splits
Lit(s) == <<s>>

\* key in d, for a dict d
Has(d, key) == \E i \in 1..Len(d.items) : d.items[i][1] = key

\* d[key], for a key of the dict d
Get(d, key) == d.items[CHOOSE i \in 1..Len(d.items) : d.items[i][1] = key][2]

\* list(d.keys())
Keys(d) == [i \in 1..Len(d.items) |-> d.items[i][1]]

\* "x in v" raises TypeError when v is None
Iterable(v) == v.kind \in {"dict", "list", "str"}

\* x in v, for a str x: a key of a dict, an item of a list, a substring of
\* a str
In(x, v) ==
    CASE v.kind = "dict" -> Has(v, x)
      [] v.kind = "list" -> \E i \in 1..Len(v.elems) : v.elems[i] = YStr(x)
      [] v.kind = "str" -> contains(v.str, x)

\* what a checker hands back: the exception that left it, or else the
\* errors it returned
Returned(errors) == [raised |-> "", value |-> errors]

Raises(exception) == [raised |-> exception, value |-> <<>>]

\* the results of the passes of a loop, taken together: the first pass
\* that raises ends the loop and the function
Collect(results) ==
    LET raising == {i \in 1..Len(results) : results[i].raised # ""}
    IN  IF raising # {} THEN Raises(results[Min(raising)].raised)
        ELSE Returned(Flatten([i \in 1..Len(results) |-> results[i].value]))

-----------------------------------------------------------------------------
(* check_docker_compose                                                    *)

required_keys == <<Lit("build"), Lit("environment"), Lit("volumes"), Lit("healthcheck")>>

required_compose_env_vars == <<Lit("PYTHONPATH"), Lit("ENV")>>

required_health_keys == <<Lit("test"), Lit("interval"), Lit("timeout"), Lit("retries")>>

\* env_vars of check_service_config (lines 39-44), for an environment that
\* is a list or a dict
compose_env_vars(environment) ==
    LET OfItem(env) ==
            IF env.kind = "str" THEN {split_sep(env.str, EQ)[1]}
            ELSE IF env.kind = "dict" THEN {env.items[i][1] : i \in 1..Len(env.items)}
            ELSE {}
    IN  IF environment.kind = "dict"
        THEN {split_sep(environment.items[i][1], EQ)[1] : i \in 1..Len(environment.items)}
        ELSE UNION {OfItem(environment.elems[i]) : i \in 1..Len(environment.elems)}

\* the volumes that "for volume in config['volumes']" looks at: up to and
\* including the first one that holds "/app" (break)
volumes_seen(volumes) ==
    LET Mounts(i) == Iterable(volumes.elems[i]) /\ In(Lit("/app"), volumes.elems[i])
        mounting == {i \in 1..Len(volumes.elems) : Mounts(i)}
    IN  IF mounting = {} THEN volumes.elems ELSE SubSeq(volumes.elems, 1, Min(mounting))

\* check_service_config(service_name, config, template)
check_service_config(name, config, seed) ==
    LET Missing(key) == ~In(key, config)
        missing_keys == SelectSeq(set_iteration(required_keys, seed), Missing)
        keys == [i \in 1..Len(missing_keys) |->
                    ErrFor("Service is missing required key", <<name, missing_keys[i]>>)]
        environment == Get(config, Lit("environment"))
        MissingVar(var) == var \notin compose_env_vars(environment)
        missing_vars == SelectSeq(set_iteration(required_compose_env_vars, seed), MissingVar)
        env == IF ~In(Lit("environment"), config) THEN <<>>
               ELSE [i \in 1..Len(missing_vars) |->
                        ErrFor("Service is missing required environment variable",
                               <<name, missing_vars[i]>>)]
        build == Get(config, Lit("build"))
        build_errors ==
            IF ~In(Lit("build"), config) THEN <<>>
            ELSE (IF ~In(Lit("context"), build)
                  THEN <<ErrFor("Service build is missing context", <<name>>)>>
                  ELSE <<>>)
                 \o (IF ~In(Lit("dockerfile"), build)
                     THEN <<ErrFor("Service build is missing dockerfile path",
                                   <<name>>)>>
                     ELSE <<>>)
        volumes == Get(config, Lit("volumes"))
        seen == volumes_seen(volumes)
        volume_errors ==
            IF ~In(Lit("volumes"), config) THEN <<>>
            ELSE IF \E i \in 1..Len(seen) : In(Lit("/app"), seen[i]) THEN <<>>
            ELSE <<ErrFor("Service must mount source code to /app", <<name>>)>>
        health_config == Get(config, Lit("healthcheck"))
        MissingHealth(key) == ~In(key, health_config)
        missing_health == SelectSeq(set_iteration(required_health_keys, seed), MissingHealth)
        health ==
            IF ~In(Lit("healthcheck"), config) THEN <<>>
            ELSE [i \in 1..Len(missing_health) |->
                     ErrFor("Service healthcheck is missing",
                            <<name, missing_health[i]>>)]
    IN  IF ~Iterable(config) THEN Raises("TypeError")
        ELSE IF In(Lit("environment"), config) /\ ~Iterable(environment)
        THEN Raises("TypeError")
        ELSE IF In(Lit("build"), config) /\ ~Iterable(build) THEN Raises("TypeError")
        ELSE IF In(Lit("volumes"), config)
                /\ (~Iterable(volumes) \/ \E i \in 1..Len(seen) : ~Iterable(seen[i]))
        THEN Raises("TypeError")
        ELSE IF In(Lit("healthcheck"), config) /\ ~Iterable(health_config)
        THEN Raises("TypeError")
        ELSE Returned(keys \o env \o build_errors \o volume_errors \o health)

required_networks == <<Lit("platform-net")>>

\* check_networks(compose_config)
check_networks(compose_config) ==
    IF ~Has(compose_config, Lit("networks"))
    THEN Returned(<<Err("Missing top-level networks configuration")>>)
    ELSE LET networks == Get(compose_config, Lit("networks"))
             Undefined(network) == ~Has(networks, network)
             missing == SelectSeq(required_networks, Undefined)
         IN  IF networks.kind # "dict" THEN Raises("AttributeError")
             ELSE Returned([i \in 1..Len(missing) |->
                               ErrFor("Missing required network", missing[i])])

\* one pass of the loop of check_dependencies (lines 107-114)
service_dependencies(name, config) ==
    IF ~Iterable(config) THEN Raises("TypeError")
    ELSE IF ~In(Lit("depends_on"), config) THEN Returned(<<>>)
    ELSE LET deps == Get(config, Lit("depends_on"))
             OfDep(item) ==
                 IF ~Iterable(item[2]) THEN Raises("TypeError")
                 ELSE IF ~In(Lit("condition"), item[2])
                 THEN Returned(<<ErrFor("Service dependency should specify a condition",
                                        <<name, item[1]>>)>>)
                 ELSE Returned(<<>>)
         IN  IF deps.kind = "dict"
             THEN Collect([i \in 1..Len(deps.items) |-> OfDep(deps.items[i])])
             ELSE IF deps.kind = "list"
             THEN Returned(<<ErrFor("Service should use healthcheck conditions in depends_on",
                                    <<name>>)>>)
             ELSE Returned(<<>>)

\* check_dependencies(compose_config)
check_dependencies(compose_config) ==
    LET services == IF Has(compose_config, Lit("services"))
                    THEN Get(compose_config, Lit("services"))
                    ELSE YDict(<<>>)
    IN  IF services.kind # "dict" THEN Raises("AttributeError")
        ELSE Collect([i \in 1..Len(services.items) |->
                         service_dependencies(services.items[i][1], services.items[i][2])])

-----------------------------------------------------------------------------
(* validators.compose_validator                                            *)
(*                                                                         *)
(* A service name is kept character by character, since is_python_service  *)
(* looks for keywords anywhere inside it.                                  *)

\* str.lower(), atom by atom, for the atoms of the model that have upper
\* case letters
ToLower ==
    ("A" :> "a") @@ ("P" :> "p") @@ ("I" :> "i") @@ ("W" :> "w")
    @@ ("POETRY" :> "poetry") @@ ("_VERSION" :> "_version") @@ ("PYTHON" :> "python")

lower(s) == [i \in 1..Len(s) |-> IF s[i] \in DOMAIN ToLower THEN ToLower[s[i]] ELSE s[i]]

python_service_indicators ==
    << <<"p", "y", "t", "h", "o", "n">>, <<"d", "j", "a", "n", "g", "o">>,
       <<"f", "l", "a", "s", "k">>, <<"f", "a", "s", "t", "a", "p", "i">>,
       <<"c", "e", "l", "e", "r", "y">>, <<"w", "o", "r", "k", "e", "r">>,
       <<"a", "p", "i">>, <<"s", "e", "r", "v", "i", "c", "e">>, <<"a", "p", "p">>,
       <<"b", "a", "c", "k", "e", "n", "d">>,
       <<"f", "o", "u", "n", "d", "a", "t", "i", "o", "n">>, <<"a", "g", "e", "n", "t">>,
       <<"m", "o", "d", "e", "l">>, <<"p", "r", "o", "c", "e", "s", "s", "o", "r">>,
       <<"a", "n", "a", "l", "y", "z", "e", "r">> >>

\* A plausible slip: the name has to be a keyword, not to contain one.
is_python_service_exact(name) ==
    \E i \in 1..Len(python_service_indicators) : lower(name) = python_service_indicators[i]

\* is_python_service(service_name)
is_python_service(name) ==
    \E i \in 1..Len(python_service_indicators) :
        contains(lower(name), python_service_indicators[i])

DevEnvironment ==
    <<"d", "e", "v", "-", "e", "n", "v", "i", "r", "o", "n", "m", "e", "n", "t">>

Dev == <<"d", "e", "v">>

\* f"./containers/{service_name}"
ContainerContext(name) == <<"./containers/">> \o name

\* f"containers/{service_name}/"
ContainerPath(name) == <<"containers/">> \o name \o <<"/">>

\* A plausible slip: the dev service is held to the rule of every other
\* service.
build_context_errors_no_dev(name, build) ==
    LET context == Get(build, Lit("context"))
        has_dockerfile == Has(build, Lit("dockerfile"))
        dockerfile == Get(build, Lit("dockerfile"))
    IN  Returned(
            (IF ~(context = YStr(ContainerContext(name)) \/ context = YStr(Lit(".")))
             THEN <<ErrFor("Build context should be './containers/<name>' or '.'", name)>>
             ELSE <<>>)
            \o (IF /\ context = YStr(ContainerContext(name))
                   /\ has_dockerfile
                   /\ dockerfile # YStr(Lit("Dockerfile"))
                THEN <<Err("When using component context, dockerfile should be 'Dockerfile'")>>
                ELSE <<>>)
            \o (IF /\ context = YStr(Lit("."))
                   /\ has_dockerfile
                   /\ ~startswith(dockerfile.str, ContainerPath(name))
                THEN <<Err("When using root context, dockerfile should include component path")>>
                ELSE <<>>))

\* the checks of validate_compose_service on a build mapping that has a
\* context (lines 41-64)
build_context_errors(name, build) ==
    LET context == Get(build, Lit("context"))
        has_dockerfile == Has(build, Lit("dockerfile"))
        dockerfile == Get(build, Lit("dockerfile"))
    IN  IF name = Dev
        THEN Returned(
                 (IF ~(\/ context = YStr(ContainerContext(DevEnvironment))
                       \/ context = YStr(Lit("."))
                       \/ context = YStr(Lit("../..")))
                  THEN <<Err("Dev container build context should be './containers/dev-environment', '.' or '../..'")>>
                  ELSE <<>>)
                 \o (IF /\ has_dockerfile
                        /\ ~(\/ dockerfile = YStr(Lit("Dockerfile"))
                             \/ dockerfile =
                                    YStr(ContainerPath(DevEnvironment) \o Lit("Dockerfile")))
                     THEN <<Err("Dev container dockerfile should be 'Dockerfile' or 'containers/dev-environment/Dockerfile'")>>
                     ELSE <<>>))
        ELSE IF context = YStr(Lit(".")) /\ has_dockerfile /\ dockerfile.kind # "str"
        THEN Raises("AttributeError")
        ELSE Returned(
                 (IF ~(context = YStr(ContainerContext(name)) \/ context = YStr(Lit(".")))
                  THEN <<ErrFor("Build context should be './containers/<name>' or '.'", name)>>
                  ELSE <<>>)
                 \o (IF /\ context = YStr(ContainerContext(name))
                        /\ has_dockerfile
                        /\ dockerfile # YStr(Lit("Dockerfile"))
                     THEN <<Err("When using component context, dockerfile should be 'Dockerfile'")>>
                     ELSE <<>>)
                 \o (IF /\ context = YStr(Lit("."))
                        /\ has_dockerfile
                        /\ ~startswith(dockerfile.str, ContainerPath(name))
                     THEN <<Err("When using root context, dockerfile should include component path")>>
                     ELSE <<>>))

\* the check of the build args (lines 67-70)
build_args_errors(name, build) ==
    IF Has(build, Lit("args")) /\ Get(build, Lit("args")).kind = "dict"
    THEN LET args == Get(build, Lit("args"))
             poetry_args ==
                 {i \in 1..Len(args.items) : contains(lower(args.items[i][1]), Lit("poetry"))}
         IN  IF poetry_args = {} /\ is_python_service(name)
             THEN <<ErrFor("Python service should include Poetry-related build args", name)>>
             ELSE <<>>
    ELSE <<>>

\* the check of the volumes (lines 73-82)
poetry_volume_errors(name, service_config) ==
    IF Has(service_config, Lit("volumes")) /\ Get(service_config, Lit("volumes")).kind = "list"
    THEN LET volumes == Get(service_config, Lit("volumes")).elems
             poetry_volume_found ==
                 \E i \in 1..Len(volumes) :
                     /\ volumes[i].kind = "str"
                     /\ \/ contains(volumes[i].str, Lit("pyproject.toml"))
                        \/ contains(volumes[i].str, Lit("poetry.lock"))
         IN  IF ~poetry_volume_found /\ is_python_service(name)
             THEN <<ErrFor("Python service should mount pyproject.toml/poetry.lock for development",
                           name),
                    ErrFor("  Consider adding: './containers/<name>/pyproject.toml:/app/pyproject.toml'",
                           name)>>
             ELSE <<>>
    ELSE <<>>

\* the check of the environment (lines 85-95)
python_path_errors(name, service_config) ==
    IF Has(service_config, Lit("environment"))
    THEN LET env_vars == Get(service_config, Lit("environment"))
             python_path_found ==
                 IF env_vars.kind = "list"
                 THEN \E i \in 1..Len(env_vars.elems) :
                          /\ env_vars.elems[i].kind = "str"
                          /\ contains(env_vars.elems[i].str, Lit("PYTHONPATH"))
                 ELSE IF env_vars.kind = "dict" THEN Has(env_vars, Lit("PYTHONPATH"))
                 ELSE FALSE
         IN  IF ~python_path_found /\ is_python_service(name)
             THEN <<ErrFor("Python service should define PYTHONPATH environment variable", name)>>
             ELSE <<>>
    ELSE <<>>

\* validate_compose_service(service_name, service_config), for a
\* service_config that is a dict
validate_compose_service(name, service_config) ==
    LET build == Get(service_config, Lit("build"))
        is_mapping == Has(service_config, Lit("build")) /\ build.kind = "dict"
        context == IF is_mapping /\ Has(build, Lit("context"))
                   THEN build_context_errors(name, build)
                   ELSE Returned(<<>>)
    IN  IF context.raised # "" THEN context
        ELSE Returned(context.value
                      \o (IF is_mapping THEN build_args_errors(name, build) ELSE <<>>)
                      \o poetry_volume_errors(name, service_config)
                      \o python_path_errors(name, service_config))

-----------------------------------------------------------------------------
(* container_manager                                                       *)
(*                                                                         *)
(* A container directory is [exists, pyproject, dockerfile]; a file is     *)
(* [exists, lines].  A line of pyproject.toml is [key, value, quoted], for *)
(* key = "value" or key = value; a line of the Dockerfile is               *)
(* [instr, version, quoted], where a LABEL line names                      *)
(* org.opencontainers.image.version with that value, in double quotes or   *)
(* not.  Version strings are sequences of characters.                      *)

DOT == "."

DigitChars == <<"0", "1", "2", "3", "4", "5", "6", "7", "8", "9">>

IsDigit(c) == \E i \in 1..Len(DigitChars) : DigitChars[i] = c

DigitValue(c) == (CHOOSE i \in 1..Len(DigitChars) : DigitChars[i] = c) - 1

\* int(s) succeeds: s is a non-empty run of decimal digits (signs, blanks
\* and underscores do not occur in the version strings considered)
is_int(s) == s # <<>> /\ \A i \in 1..Len(s) : IsDigit(s[i])

\* int(s)
RECURSIVE int(_)
int(s) ==
    IF s = <<>> THEN 0
    ELSE 10 * int(SubSeq(s, 1, Len(s) - 1)) + DigitValue(s[Len(s)])

\* str(n) for n >= 0, as the f-strings of bump_version format it
RECURSIVE str(_)
str(n) ==
    IF n < 10 THEN <<DigitChars[n + 1]>>
    ELSE str(n \div 10) \o <<DigitChars[(n % 10) + 1]>>

\* get_pyproject_path(container_name): ValueError without the directory or
\* without pyproject.toml in it
get_pyproject_path(c) ==
    IF c.exists /\ c.pyproject.exists THEN Returned(<<"pyproject.toml">>)
    ELSE Raises("ValueError")

\* get_dockerfile_path(container_name)
get_dockerfile_path(c) ==
    IF c.exists /\ c.dockerfile.exists THEN Returned(<<"Dockerfile">>)
    ELSE Raises("ValueError")

\* the line holds a match of  version\s*=\s*"[^"]+"  : the pattern is not
\* anchored, so every key that ends with "version" matches
version_match(line) ==
    /\ line.key \in {"version", "python_version"}
    /\ line.quoted
    /\ line.value # <<>>

\* get_current_version(container_name): the value of the first match
get_current_version(c) ==
    IF get_pyproject_path(c).raised # "" THEN get_pyproject_path(c)
    ELSE LET lines == c.pyproject.lines
             at == {i \in 1..Len(lines) : version_match(lines[i])}
         IN  IF at = {} THEN Raises("ValueError")
             ELSE Returned(lines[Min(at)].value)

\* parse_version(version): three integers, or ValueError
parse_version(version) ==
    LET parts == split_sep(version, DOT)
    IN  IF Len(parts) = 3 /\ \A i \in 1..3 : is_int(parts[i])
        THEN Returned(<<int(parts[1]), int(parts[2]), int(parts[3])>>)
        ELSE Raises("ValueError")

\* bump_version(current_version, bump_type)
bump_version(current_version, bump_type) ==
    LET version == parse_version(current_version)
        major == version.value[1]
        minor == version.value[2]
        patch == version.value[3]
    IN  IF version.raised # "" THEN version
        ELSE IF bump_type = "major"
        THEN Returned(str(major + 1) \o <<DOT, "0", DOT, "0">>)
        ELSE IF bump_type = "minor"
        THEN Returned(str(major) \o <<DOT>> \o str(minor + 1) \o <<DOT, "0">>)
        ELSE IF bump_type = "patch"
        THEN Returned(str(major) \o <<DOT>> \o str(minor) \o <<DOT>> \o str(patch + 1))
        ELSE Raises("ValueError")

\* update_pyproject(container_name, new_version): every match is replaced
\* and the file is written; [raised, container, written]
update_pyproject(c, new_version) ==
    IF get_pyproject_path(c).raised # ""
    THEN [raised |-> "ValueError", container |-> c, written |-> <<>>]
    ELSE LET lines == c.pyproject.lines
             updated_content ==
                 [i \in 1..Len(lines) |->
                     IF version_match(lines[i])
                     THEN [lines[i] EXCEPT !.value = new_version]
                     ELSE lines[i]]
         IN  [raised |-> "",
              container |-> [c EXCEPT !.pyproject.lines = updated_content],
              written |-> <<"pyproject.toml">>]

\* the LABEL line of label_section, the block update_dockerfile adds
label_section(new_version) ==
    [instr |-> "LABEL", version |-> new_version, quoted |-> TRUE]

\* the lines with label_section put in after line at
InsertAfter(lines, at, new_version) ==
    SubSeq(lines, 1, at) \o <<label_section(new_version)>>
        \o SubSeq(lines, at + 1, Len(lines))

\* the last line of the first match of env_pattern: the first ENV line
\* and the ENV lines that follow it directly
EnvBlockEnd(lines) ==
    LET first == Min({i \in 1..Len(lines) : lines[i].instr = "ENV"})
    IN  Max({j \in first..Len(lines) :
                \A k \in first..j : lines[k].instr = "ENV"})

\* update_dockerfile(container_name, new_version): [raised, container, written]
update_dockerfile(c, new_version) ==
    IF get_dockerfile_path(c).raised # ""
    THEN [raised |-> "ValueError", container |-> c, written |-> <<>>]
    ELSE LET lines == c.dockerfile.lines
             instrs == {lines[i].instr : i \in 1..Len(lines)}
             updated_content ==
                 IF "LABEL" \in instrs
                 THEN [i \in 1..Len(lines) |->
                          IF lines[i].instr = "LABEL" /\ lines[i].quoted
                                 /\ lines[i].version # <<>>
                          THEN [lines[i] EXCEPT !.version = new_version]
                          ELSE lines[i]]
                 ELSE IF "ENV" \in instrs
                 THEN InsertAfter(lines, EnvBlockEnd(lines), new_version)
                 ELSE IF "FROM" \in instrs
                 THEN InsertAfter(lines,
                          Min({i \in 1..Len(lines) : lines[i].instr = "FROM"}),
                          new_version)
                 ELSE lines
         IN  [raised |-> "",
              container |-> [c EXCEPT !.dockerfile.lines = updated_content],
              written |-> <<"Dockerfile">>]

\* the two updates of handle_version_command, one after the other; a
\* ValueError ends the command with sys.exit(1)
update_both(c, new_version) ==
    LET first == update_pyproject(c, new_version)
        second == update_dockerfile(first.container, new_version)
    IN  IF first.raised # ""
        THEN [status |-> 1, container |-> c, written |-> <<>>,
              new_version |-> new_version]
        ELSE [status |-> IF second.raised # "" THEN 1 ELSE 0,
              container |-> second.container,
              written |-> first.written \o second.written,
              new_version |-> new_version]

\* handle_version_command(args) on container c:
\* [status, container, written, new_version]
handle_version_command(args, c) ==
    LET current_version == get_current_version(c)
        failed == [status |-> 1, container |-> c, written |-> <<>>,
                   new_version |-> <<>>]
    IN  IF current_version.raised # "" THEN failed
        ELSE IF args.version_action = "get"
        THEN [failed EXCEPT !.status = 0]
        ELSE IF args.version_action = "bump"
        THEN LET new_version == bump_version(current_version.value, args.bump_type)
             IN  IF new_version.raised # "" THEN failed
                 ELSE update_both(c, new_version.value)
        ELSE IF args.version_action = "set"
        THEN IF parse_version(args.version).raised # "" THEN failed
             ELSE update_both(c, args.version)
        ELSE [failed EXCEPT !.status = 0]

\* get_container_dir(container_name)
get_container_dir(c) ==
    IF c.exists THEN Returned(<<"containers">>) ELSE Raises("ValueError")

\* the tag "latest"
LATEST == <<"latest">>

\* the docker command lines of build_container
build_cmd(image_name, version) ==
    [docker |-> "build", image |-> image_name, tag |-> version]

tag_cmd(image_name, version) ==
    [docker |-> "tag", image |-> image_name, tag |-> LATEST]

push_cmd(image_name, version) ==
    [docker |-> "push", image |-> image_name, tag |-> version]

push_latest_cmd(image_name) ==
    [docker |-> "push", image |-> image_name, tag |-> LATEST]

\* subprocess.run(cmd, check=True) as the next command of the run: the host
\* answers the k-th command with docker[k], "ok", "CalledProcessError" (docker
\* ended with a non-zero status, caught: sys.exit(1)) or "FileNotFoundError"
\* (no docker on the host, not caught: the script ends with status 1)
subprocess_run(done, cmd, docker) ==
    LET outcome == docker[Len(done.issued) + 1]
    IN  [issued |-> Append(done.issued, [cmd |-> cmd, outcome |-> outcome]),
         status |-> IF outcome = "ok" THEN 0 ELSE 1]

\* build_container with a tag command whose failure does not end the run
build_container_tag_unchecked(args, c, docker) ==
    LET version == IF args.version # <<>> THEN Returned(args.version)
                   ELSE get_current_version(c)
        image_name == IF args.registry # <<>>
                      THEN args.registry \o <<"/">> \o args.container_name
                      ELSE args.container_name
        start == [issued |-> <<>>, status |-> 0]
        built == subprocess_run(start, build_cmd(image_name, version.value), docker)
        tagged == IF built.status # 0 \/ ~args.tag_latest THEN built
                  ELSE [subprocess_run(built, tag_cmd(image_name, version.value), docker)
                           EXCEPT !.status = 0]
        pushed == IF tagged.status # 0 \/ ~args.push THEN tagged
                  ELSE subprocess_run(tagged, push_cmd(image_name, version.value), docker)
        pushed_latest ==
            IF pushed.status # 0 \/ ~args.push \/ ~args.tag_latest THEN pushed
            ELSE subprocess_run(pushed, push_latest_cmd(image_name), docker)
    IN  IF version.raised # "" \/ get_container_dir(c).raised # ""
        THEN [issued |-> <<>>, status |-> 1]
        ELSE pushed_latest

\* build_container(container_name, version, push, registry, tag_latest),
\* called by handle_build_command: [issued, status], the commands issued
\* with their outcomes and the exit status of the script
build_container(args, c, docker) ==
    LET version == IF args.version # <<>> THEN Returned(args.version)
                   ELSE get_current_version(c)
        image_name == IF args.registry # <<>>
                      THEN args.registry \o <<"/">> \o args.container_name
                      ELSE args.container_name
        start == [issued |-> <<>>, status |-> 0]
        built == subprocess_run(start, build_cmd(image_name, version.value), docker)
        tagged == IF built.status # 0 \/ ~args.tag_latest THEN built
                  ELSE subprocess_run(built, tag_cmd(image_name, version.value), docker)
        pushed == IF tagged.status # 0 \/ ~args.push THEN tagged
                  ELSE subprocess_run(tagged, push_cmd(image_name, version.value), docker)
        pushed_latest ==
            IF pushed.status # 0 \/ ~args.push \/ ~args.tag_latest THEN pushed
            ELSE subprocess_run(pushed, push_latest_cmd(image_name), docker)
    IN  IF version.raised # "" \/ get_container_dir(c).raised # ""
        THEN [issued |-> <<>>, status |-> 1]
        ELSE pushed_latest

-----------------------------------------------------------------------------
(* check_env_secrets.EnvSecretChecker                                      *)
(*                                                                         *)
(* A line of the checked file is a sequence of atoms.  A match of a        *)
(* pattern is [whole, groups]: the matched text and the text of each       *)
(* capture group of the pattern.                                           *)

\* self.patterns, in the order of the dict
patterns ==
    <<"port", "password", "username", "api_key", "url", "email", "ip_address">>

\* self.safe_values.get(pattern_type, set())
safe_values(pattern_type) ==
    IF pattern_type = "port" THEN {"80", "443", "3000", "8080"}
    ELSE IF pattern_type = "username" THEN {"postgres", "root", "admin"}
    ELSE IF pattern_type = "password" THEN {"postgres"}
    ELSE IF pattern_type = "host" THEN {"localhost", "127.0.0.1", "0.0.0.0"}
    ELSE {}

\* is_safe_value(pattern_type, value)
is_safe_value(pattern_type, value) == value \in safe_values(pattern_type)

QUOTE == "\""

\* lines of a checked file
PasswordLine == <<"password", SP, "=", SP, QUOTE, "hunter2", QUOTE>>

CommentedLine == <<HASH, SP, "password", SP, "=", SP, QUOTE, "hunter2", QUOTE>>

SafePasswordLine == <<"PASSWORD", "=", "postgres">>

EmailLine == <<"contact", SP, "=", SP, QUOTE, "ops@example.com", QUOTE>>

SafePortLine == <<"port", SP, "=", SP, "8080">>

PortLine == <<"port", SP, "=", SP, "5432">>

PlainLine == <<"x", SP, "=", SP, "1">>

AddressLine == <<"bind", SP, "10.0.0.5">>

UserPasswordLine == <<"user", "=", "admin", SP, "password", "=", "s3cret">>

TokensLine == <<"token", ":", SP, "abc", SP, "token", ":", SP, "def">>

Match(whole, groups) == [whole |-> whole, groups |-> groups]

\* re.finditer(self.patterns[pattern_type], line) on the lines above.  The
\* patterns of email and ip_address have no capture group.
finditer(pattern_type, line) ==
    IF pattern_type = "port" /\ line = SafePortLine
    THEN <<Match(<<SP, "8080", NL>>, <<"8080">>)>>
    ELSE IF pattern_type = "port" /\ line = PortLine
    THEN <<Match(<<SP, "5432", NL>>, <<"5432">>)>>
    ELSE IF pattern_type = "password" /\ line \in {PasswordLine, CommentedLine}
    THEN <<Match(PasswordLine, <<"hunter2">>)>>
    ELSE IF pattern_type = "password" /\ line = SafePasswordLine
    THEN <<Match(SafePasswordLine, <<"postgres">>)>>
    ELSE IF pattern_type = "password" /\ line = UserPasswordLine
    THEN <<Match(<<"password", "=", "s3cret">>, <<"s3cret">>)>>
    ELSE IF pattern_type = "username" /\ line = UserPasswordLine
    THEN <<Match(<<"user", "=", "admin">>, <<"admin">>)>>
    ELSE IF pattern_type = "api_key" /\ line = TokensLine
    THEN <<Match(<<"token", ":", SP, "abc">>, <<"abc">>),
           Match(<<"token", ":", SP, "def">>, <<"def">>)>>
    ELSE IF pattern_type = "email" /\ line = EmailLine
    THEN <<Match(<<"ops@example.com">>, <<>>)>>
    ELSE IF pattern_type = "ip_address" /\ line = AddressLine
    THEN <<Match(<<"10.0.0.5">>, <<>>)>>
    ELSE <<>>

\* match.group(1): IndexError (no such group) for a pattern without groups
group(match, n) ==
    IF n <= Len(match.groups) THEN Returned(match.groups[n])
    ELSE Raises("IndexError")

\* line.strip().startswith(('#', '//', '/*', '*', '--'))
is_comment(line) ==
    \E mark \in {"#", "//", "/*", "*", "--"} : startswith(strip(line), <<mark>>)

\* the inner loop of check_file over the matches of one pattern, from the
\* k-th match on: [raised, value], value the findings so far
RECURSIVE check_matches(_, _, _, _, _)
check_matches(pattern_type, line, line_num, k, found) ==
    LET matches == finditer(pattern_type, line)
        value == group(matches[k], 1)
    IN  IF k > Len(matches) THEN Returned(found)
        ELSE IF value.raised # "" THEN [raised |-> value.raised, value |-> found]
        ELSE check_matches(pattern_type, line, line_num, k + 1,
                 IF is_safe_value(pattern_type, value.value) THEN found
                 ELSE Append(found, [type |-> pattern_type, line |-> line_num,
                                     content |-> strip(line)]))

\* the loop of check_file over the patterns for one line, from the p-th on
RECURSIVE check_patterns(_, _, _, _)
check_patterns(line, line_num, p, found) ==
    IF p > Len(patterns) THEN Returned(found)
    ELSE LET after == check_matches(patterns[p], line, line_num, 1, found)
         IN  IF after.raised # "" THEN after
             ELSE check_patterns(line, line_num, p + 1, after.value)

\* the loop of check_file over the lines, from line_num on
RECURSIVE check_lines(_, _, _)
check_lines(lines, line_num, found) ==
    IF line_num > Len(lines) THEN Returned(found)
    ELSE IF is_comment(lines[line_num]) THEN check_lines(lines, line_num + 1, found)
    ELSE LET after == check_patterns(lines[line_num], line_num, 1, found)
         IN  IF after.raised # "" THEN after
             ELSE check_lines(lines, line_num + 1, after.value)

\* check_file(file_path) on a file with these lines: [findings, printed];
\* an exception ends the loops, is printed, and the findings so far are
\* returned
check_file(lines) ==
    LET checked == check_lines(lines, 1, <<>>)
    IN  [findings |-> checked.value,
         printed |-> IF checked.raised # "" THEN <<"Error processing">> ELSE <<>>]

-----------------------------------------------------------------------------
(* Dockerfile texts given to the parser                                    *)

MaxLines == 3

SampleLines ==
    { <<>>,                                       \* blank
      <<SP, TAB>>,                                \* whitespace only
      <<HASH, SP, "note">>,                       \* comment
      <<SP, HASH, "note", SP, BS>>,               \* indented comment
      <<"RUN", SP, "make">>,
      <<SP, "RUN", SP, SP, "make", SP, "all", SP>>,
      <<"FROM", SP, "node:18">>,
      <<"CMD">>,                                  \* bare keyword
      <<"RUN", SP, "make", SP, BS>>,              \* continued
      <<"RUN", SP, BS>>,
      <<"all", SP, BS>>,
      <<"RUN", BS>>,
      <<BS>> }

RECURSIVE TextsOf(_)
TextsOf(n) ==
    IF n = 0 THEN {<<>>}
    ELSE LET shorter == TextsOf(n - 1)
         IN  shorter \cup {Append(ls, l) : ls \in shorter, l \in SampleLines}

\* every text of at most MaxLines sample lines, joined with "\n"
ParserTexts == {join(<<NL>>, ls) : ls \in TextsOf(MaxLines)}

-----------------------------------------------------------------------------
(* Specification of the parser                                             *)

Init ==
    /\ content \in ParserTexts
    /\ pc = "start"
    /\ parsed = NotParsed
    /\ runs = <<>>
    /\ host = AnyHost
    /\ validator = NewValidator
    /\ disk = <<>>
    /\ disk0 = <<>>
    /\ standards = StandardsStart
    /\ compose = YDict(<<>>)
    /\ findings = <<>>
    /\ manager = NoCommand

ParseDockerfile ==
    /\ pc = "start"
    /\ parsed' = parse_dockerfile(content)
    /\ pc' = "parsed"
    /\ UNCHANGED manager
    /\ UNCHANGED <<content, runs, host, validator, standardsVars, composeVars>>

Next == ParseDockerfile

Spec == Init /\ [][Next]_vars

-----------------------------------------------------------------------------
(* Specification of the Dockerfile checker: check_dockerfile.py is run on  *)
(* the same Dockerfile, and then run again                                 *)

InitDockerfile ==
    /\ content \in DockerfileTexts
    /\ pc = "first run"
    /\ parsed = NotParsed
    /\ runs = <<>>
    /\ host \in [template_ok : BOOLEAN, is_file : BOOLEAN]
    /\ validator = NewValidator
    /\ disk = <<>>
    /\ disk0 = <<>>
    /\ standards = StandardsStart
    /\ compose = YDict(<<>>)
    /\ findings = <<>>
    /\ manager = NoCommand

\* one run of the script, a process of its own
Main ==
    /\ pc \in {"first run", "second run"}
    /\ \E seed \in HashSeeds :
           runs' = Append(runs,
                          [seed |-> seed,
                           out |-> main(content, seed, host.template_ok, host.is_file)])
    /\ pc' = IF pc = "first run" THEN "second run" ELSE "done"
    /\ UNCHANGED manager
    /\ UNCHANGED <<content, parsed, host, validator, standardsVars, composeVars>>

NextDockerfile == Main

SpecDockerfile == InitDockerfile /\ [][NextDockerfile]_vars

-----------------------------------------------------------------------------
(* Specification of the service validator: one call of                     *)
(* ServiceValidator(service_path).validate()                               *)

MaxPolls == 2

FullListing ==
    { <<"Dockerfile">>, <<"pyproject.toml">>, <<"src">>, <<"tests">>, <<"README.md">>,
      <<"src", service_name>>, <<"tests", "unit">>, <<"tests", "integration">> }

ServiceListings ==
    { FullListing,
      FullListing \ {<<"README.md">>},
      FullListing \ {<<"Dockerfile">>, <<"tests">>, <<"tests", "unit">>,
                      <<"tests", "integration">>},
      FullListing \ {<<"src", service_name>>},
      FullListing \ {<<"tests", "integration">>},
      FullListing \ {<<"tests", "unit">>, <<"tests", "integration">>} }

\* every table a conforming pyproject.toml holds
FullTables ==
    UNION { {SubSeq(required_sections[i], 1, n) : n \in 1..Len(required_sections[i])}
            : i \in 1..Len(required_sections) }

PyprojectTables ==
    { FullTables,
      FullTables \ {<<"tool", "black">>},
      FullTables \ {<<"tool", "mypy">>, <<"tool", "coverage", "run">>},
      FullTables \ {<<"tool", "poetry", "group">>, <<"tool", "poetry", "group", "dev">>,
                     <<"tool", "poetry", "group", "dev", "dependencies">>} }

ExposeLine == <<"EXPOSE", SP, "8000">>

ServiceDockerfiles ==
    { Dockerfile("python", "eq", TRUE, TRUE, "both", "full", "one", "cmd")
          \o <<NL>> \o ExposeLine,
      Dockerfile("python", "eq", TRUE, TRUE, "both", "full", "one", "cmd"),
      Dockerfile("python", "space", TRUE, TRUE, "both", "none", "one", "cmd")
          \o <<NL>> \o ExposeLine,
      Dockerfile("node", "eq", TRUE, TRUE, "both", "full", "one", "cmd")
          \o <<NL>> \o ExposeLine }

EnvExamples ==
    { <<>>,
      << <<HASH, SP, "settings">>, <<>>, <<"API_KEY", EQ, "changeme">> >>,
      << <<"API_KEY", EQ>>, <<SP, "DB_URL", EQ, "x", EQ, "y">> >> }

Environs == { {}, {<<"API_KEY">>}, {<<"API_KEY">>, <<"DB_URL">>} }

PollResults == {"command failed", "starting", "healthy", "unhealthy", "raises"}

RECURSIVE PollsOf(_)
PollsOf(n) ==
    IF n = 0 THEN {<<>>}
    ELSE LET shorter == PollsOf(n - 1)
         IN  shorter \cup {Append(ps, r) : ps \in shorter, r \in PollResults}

InitService ==
    /\ content = <<>>
    /\ pc = "validate"
    /\ parsed = NotParsed
    /\ runs = <<>>
    /\ host = AnyHost
    /\ validator = NewValidator
    /\ disk = <<>>
    /\ disk0 = <<>>
    /\ standards = StandardsStart
    /\ compose = YDict(<<>>)
    /\ findings = <<>>
    /\ manager = NoCommand

AtStep(name) ==
    /\ pc = "validate"
    /\ validator.step <= Len(validations)
    /\ validations[validator.step] = name

ValidateStructure ==
    /\ AtStep("Structure")
    /\ \E listing \in ServiceListings, stat_fails \in BOOLEAN :
           validator' = AfterCheck(validator, validate_structure(listing, stat_fails))
    /\ UNCHANGED manager
    /\ UNCHANGED <<dockerfileVars, standardsVars, composeVars>>

ValidatePyprojectToml ==
    /\ AtStep("pyproject.toml")
    /\ \E tables \in PyprojectTables, readable \in BOOLEAN :
           validator' = AfterCheck(validator, validate_pyproject_toml(tables, readable))
    /\ UNCHANGED manager
    /\ UNCHANGED <<dockerfileVars, standardsVars, composeVars>>

ValidateDockerfile ==
    /\ AtStep("Dockerfile")
    /\ \E text \in ServiceDockerfiles, readable \in BOOLEAN :
           validator' = AfterCheck(validator, validate_dockerfile(text, readable))
    /\ UNCHANGED manager
    /\ UNCHANGED <<dockerfileVars, standardsVars, composeVars>>

CheckEnvironmentVariables ==
    /\ AtStep("Environment")
    /\ \E env_example \in EnvExamples, readable \in BOOLEAN, environ \in Environs :
           validator' =
               AfterCheck(validator, check_service_environment(env_example, readable, environ))
    /\ UNCHANGED manager
    /\ UNCHANGED <<dockerfileVars, standardsVars, composeVars>>

CheckContainerHealth ==
    /\ AtStep("Container Health")
    /\ \E polls \in PollsOf(MaxPolls) :
           validator' = AfterCheck(validator, check_container_health(polls))
    /\ UNCHANGED manager
    /\ UNCHANGED <<dockerfileVars, standardsVars, composeVars>>

RunTests ==
    /\ AtStep("Tests")
    /\ \E tests \in {"pass", "fail", "raises"} :
           validator' = AfterCheck(validator, run_tests(tests))
    /\ UNCHANGED manager
    /\ UNCHANGED <<dockerfileVars, standardsVars, composeVars>>

\* the rest of validate() after its loop (lines 299-339): the report, the
\* diagnostics of a failed run (check_python_path records an error when
\* docker cannot be started), and the return of all_passed
ValidateReturn ==
    /\ pc = "validate"
    /\ validator.step = Len(validations) + 1
    /\ \E docker_starts \in BOOLEAN :
           validator' =
               [validator EXCEPT
                   !.errors =
                       IF ~validator.all_passed /\ ~docker_starts
                       THEN Append(@, ErrFor("Error checking PYTHONPATH", <<"OSError">>))
                       ELSE @,
                   !.returned = validator.all_passed]
    /\ pc' = "done"
    /\ UNCHANGED manager
    /\ UNCHANGED <<content, parsed, runs, host, standardsVars, composeVars>>

NextService ==
    \/ ValidateStructure
    \/ ValidatePyprojectToml
    \/ ValidateDockerfile
    \/ CheckEnvironmentVariables
    \/ CheckContainerHealth
    \/ RunTests
    \/ ValidateReturn

SpecService == InitService /\ [][NextService]_vars

-----------------------------------------------------------------------------
(* SpecHealth: one call of ServiceValidator.check_container_health, query  *)
(* by query.  Time is counted in the seconds the loop sleeps.              *)

\* self.errors when the call begins
PriorErrors == {<<>>, <<Err("Missing required directories")>>}

PsResults ==
    {PsResult(TRUE, 0, FALSE, FALSE, FALSE), PsResult(FALSE, 1, FALSE, FALSE, FALSE)}
    \cup {PsResult(FALSE, 0, up, healthy, unhealthy) :
             up \in BOOLEAN, healthy \in BOOLEAN, unhealthy \in BOOLEAN}

InitHealth ==
    /\ content = <<>>
    /\ pc = "check_container_health"
    /\ parsed = NotParsed
    /\ runs = <<>>
    /\ host = AnyHost
    /\ validator \in {HealthStart(errors, timeout) :
                         errors \in PriorErrors, timeout \in 0..MaxPolls}
    /\ disk = <<>>
    /\ disk0 = <<>>
    /\ standards = StandardsStart
    /\ compose = YDict(<<>>)
    /\ findings = <<>>
    /\ manager = NoCommand

\* the loop condition holds: one query and what follows it
PollContainer ==
    /\ pc = "check_container_health"
    /\ validator.elapsed < validator.timeout
    /\ \E result \in PsResults :
           validator' = poll_container(validator, result)
    /\ pc' = IF validator'.returned THEN "done" ELSE pc
    /\ UNCHANGED manager
    /\ UNCHANGED <<content, parsed, runs, host, standardsVars, composeVars>>

\* the loop condition fails: the timeout has passed
HealthTimedOut ==
    /\ pc = "check_container_health"
    /\ validator.elapsed >= validator.timeout
    /\ validator' = health_timed_out(validator)
    /\ pc' = "done"
    /\ UNCHANGED manager
    /\ UNCHANGED <<content, parsed, runs, host, standardsVars, composeVars>>

NextHealth == PollContainer \/ HealthTimedOut

SpecHealth == InitHealth /\ [][NextHealth]_vars

-----------------------------------------------------------------------------
(* Specification of the standards checker: one call of                     *)
(* check_standards.check_containers() on a ./containers directory          *)

MaxContainers == 2

Entry(path, kind) == [path |-> path, kind |-> kind]

Source(ok, style, imports, has_all) ==
    [ok |-> ok, style |-> style, imports |-> imports, has_all |-> has_all]

ImportFrom(level, module, lineno) == [level |-> level, module |-> module, lineno |-> lineno]

Tidy == Source(TRUE, "black", <<>>, FALSE)

Ugly == Source(TRUE, "ugly", <<>>, FALSE)

Unparsable == Source(FALSE, "ugly", <<>>, FALSE)

\* from . import helper; from containers.pkg import x; from os import path
WithImports ==
    Source(TRUE, "black",
           <<ImportFrom(1, "", 1), ImportFrom(0, "containers.pkg", 2), ImportFrom(0, "os", 3)>>,
           FALSE)

ExportsAll == Source(TRUE, "ugly", <<ImportFrom(0, "os", 1)>>, TRUE)

Toml(parses, tables, fields, python) ==
    [parses |-> parses, tables |-> tables, fields |-> fields, python |-> python]

PoetryTables ==
    {<<"tool">>, <<"tool", "poetry">>, <<"tool", "poetry", "dependencies">>}

ValidToml == Toml(TRUE, PoetryTables, {"name", "version", "description"}, TRUE)

NoToml == Toml(FALSE, {}, {}, FALSE)

Container(name, tree, source, pyproject) ==
    [name |-> name, root |-> <<"containers", name>>, tree |-> tree, source |-> source,
     pyproject |-> pyproject]

TopFiles(names) == [i \in 1..Len(names) |-> Entry(<<names[i]>>, "file")]

\* a container with src/<name>/{__init__,main}.py and tests/__init__.py
Service(name, top_files, init, main_source, pyproject) ==
    Container(name,
              TopFiles(top_files)
              \o <<Entry(<<"src">>, "dir"), Entry(<<"src", name>>, "dir"),
                   Entry(<<"src", name, "__init__.py">>, "py"),
                   Entry(<<"src", name, "main.py">>, "py"),
                   Entry(<<"tests">>, "dir"), Entry(<<"tests", "__init__.py">>, "py")>>,
              (<<"src", name, "__init__.py">> :> init)
              @@ (<<"src", name, "main.py">> :> main_source)
              @@ (<<"tests", "__init__.py">> :> Tidy),
              pyproject)

\* a service with a hidden directory and a build directory below its package
WithSkippedDirs ==
    LET c == Service("cache", <<"Dockerfile", "pyproject.toml">>, Tidy, Tidy,
                     Toml(FALSE, {}, {}, FALSE))
    IN  [c EXCEPT
            !.tree = @ \o <<Entry(<<"src", "cache", ".hidden">>, "dir"),
                            Entry(<<"src", "cache", ".hidden", "gen.py">>, "py"),
                            Entry(<<"src", "cache", "build">>, "dir"),
                            Entry(<<"src", "cache", "build", "out.py">>, "py"),
                            Entry(<<"src", "cache", "util">>, "dir"),
                            Entry(<<"src", "cache", "util", "text.py">>, "py")>>,
            !.source = @ @@ (<<"src", "cache", ".hidden", "gen.py">> :> Ugly)
                         @@ (<<"src", "cache", "build", "out.py">> :> Unparsable)
                         @@ (<<"src", "cache", "util", "text.py">> :> Ugly)]

Containers ==
    { Service("app", <<"Dockerfile", "pyproject.toml">>, Tidy, Tidy, ValidToml),
      Service("api", <<"Dockerfile", "pyproject.toml">>, ExportsAll, Ugly, ValidToml),
      Service("worker", <<"Dockerfile", "pyproject.toml">>, Tidy, Unparsable, ValidToml),
      Service("legacy", <<"Dockerfile", "requirements.txt">>, Tidy, Tidy, NoToml),
      Service("gateway", <<"pyproject.toml", "setup.py">>, WithImports, WithImports,
              Toml(TRUE, PoetryTables, {"name", "version"}, TRUE)),
      Service("tools", <<"pyproject.toml">>, Tidy, Ugly, ValidToml),
      WithSkippedDirs,
      Container("static", TopFiles(<<"Dockerfile", "pyproject.toml">>), <<>>,
                Toml(TRUE, PoetryTables, {"name", "version", "description"}, FALSE)),
      Container("resource_monitor", TopFiles(<<"README.md">>), <<>>, NoToml),
      Container("web",
                TopFiles(<<"Dockerfile">>)
                \o <<Entry(<<"scripts">>, "dir"), Entry(<<"scripts", "run.py">>, "py")>>,
                (<<"scripts", "run.py">> :> Ugly), NoToml),
      Container("dev-environment", TopFiles(<<"Dockerfile", "docker-compose.dev.yml">>),
                <<>>, Toml(TRUE, {<<"tool">>}, {}, FALSE)) }

\* the listings of ./containers: up to n directories, in the order glob
\* yields them
RECURSIVE DisksOf(_)
DisksOf(n) ==
    IF n = 0 THEN {<<>>}
    ELSE LET shorter == DisksOf(n - 1)
             Named(d) == {d[i].name : i \in 1..Len(d)}
             More(d) == {Append(d, c) : c \in {x \in Containers : x.name \notin Named(d)}}
         IN  shorter \cup UNION {More(d) : d \in shorter}

\* what validators.dockerfile_validator.validate_dockerfile returns for a
\* Dockerfile
DockerfileResults ==
    { [errors |-> <<>>, warnings |-> <<>>],
      [errors |-> <<>>, warnings |-> <<Err("Missing recommended instruction: LABEL")>>],
      [errors |-> <<Err("Missing required instruction: CMD")>>, warnings |-> <<>>] }

\* what validators.compose_validator.validate_compose_file returns for
\* docker-compose.dev.yml
ComposeResults == { <<>>, <<Err("Missing 'services' section in docker-compose file")>> }

InitStandards ==
    /\ content = <<>>
    /\ pc = "check"
    /\ parsed = NotParsed
    /\ runs = <<>>
    /\ host = AnyHost
    /\ validator = NewValidator
    /\ disk \in DisksOf(MaxContainers)
    /\ disk0 = disk
    /\ standards = StandardsStart
    /\ compose = YDict(<<>>)
    /\ findings = <<>>
    /\ manager = NoCommand

\* one pass of "for container_dir in container_dirs"; the TypeError of
\* line 33 is not caught and ends the run
CheckContainer ==
    /\ pc = "check"
    /\ standards.next <= Len(disk)
    /\ \E dockerfile \in DockerfileResults :
           LET pass == CheckOne(standards, disk[standards.next], dockerfile)
           IN  /\ disk' = [disk EXCEPT ![standards.next] = pass.container]
               /\ standards' = pass.st
               /\ pc' = IF pass.st.raised # "" THEN "done" ELSE "check"
    /\ UNCHANGED manager
    /\ UNCHANGED <<content, parsed, runs, host, validator, disk0, composeVars>>

\* compose_path.exists(), for ./containers/dev-environment/docker-compose.dev.yml
compose_exists(d) ==
    \E i \in 1..Len(d) :
        d[i].name = "dev-environment" /\ Exists(d[i], <<"docker-compose.dev.yml">>)

\* the rest of check_containers after its loop (lines 50-60)
ValidateComposeAndReturn ==
    /\ pc = "check"
    /\ standards.next = Len(disk) + 1
    /\ \E result \in ComposeResults :
           LET compose_errors == IF compose_exists(disk) THEN result ELSE <<>>
               all_valid == standards.all_valid /\ compose_errors = <<>>
           IN  standards' = [standards EXCEPT !.compose_errors = compose_errors,
                                              !.all_valid = all_valid,
                                              !.returned = all_valid]
    /\ pc' = "done"
    /\ UNCHANGED manager
    /\ UNCHANGED <<content, parsed, runs, host, validator, disk, disk0, composeVars>>

NextStandards ==
    \/ CheckContainer
    \/ ValidateComposeAndReturn

SpecStandards == InitStandards /\ [][NextStandards]_vars

-----------------------------------------------------------------------------
(* SpecContainer: one run of container_validator.main on a container       *)
(* directory given on the command line                                     *)

\* from . import helper, and, on line 4, from ..pkg import x
TwoRelative ==
    Source(TRUE, "black", <<ImportFrom(1, "", 1), ImportFrom(2, "pkg", 4)>>, FALSE)

\* a container directory parent/<name> with src/<name>/{__init__,main}.py,
\* src/<name>/util/__init__.py and tests/__init__.py
Package(name, parent, top_files, init, main_source, util_init, tests_init) ==
    [name |-> name,
     root |-> Append(parent, name),
     tree |-> TopFiles(top_files)
              \o <<Entry(<<"src">>, "dir"), Entry(<<"src", name>>, "dir"),
                   Entry(<<"src", name, "__init__.py">>, "py"),
                   Entry(<<"src", name, "main.py">>, "py"),
                   Entry(<<"src", name, "util">>, "dir"),
                   Entry(<<"src", name, "util", "__init__.py">>, "py"),
                   Entry(<<"tests">>, "dir"), Entry(<<"tests", "__init__.py">>, "py")>>,
     source |-> (<<"src", name, "__init__.py">> :> init)
                @@ (<<"src", name, "main.py">> :> main_source)
                @@ (<<"src", name, "util", "__init__.py">> :> util_init)
                @@ (<<"tests", "__init__.py">> :> tests_init),
     pyproject |-> IF \E i \in 1..Len(top_files) : top_files[i] = "pyproject.toml"
                   THEN ValidToml ELSE NoToml]

PackageNames == {"app", "resource_monitor", "tools", "common", "monitoring"}

\* the directories a container directory is given in
PackageParents ==
    { <<"containers">>, <<"build", "containers">>, <<".work", "containers">>,
      <<"srv", "common">> }

Packages ==
    {Package(name, parent, top_files, init, main_source, util_init, tests_init) :
        name \in PackageNames, parent \in PackageParents,
        top_files \in {<<"Dockerfile", "pyproject.toml">>, <<"requirements.txt">>},
        init \in {Tidy, WithImports, ExportsAll},
        main_source \in {Tidy, TwoRelative, Unparsable},
        util_init \in {Tidy, WithImports},
        tests_init \in {Tidy, WithImports}}

InitContainer ==
    /\ content = <<>>
    /\ pc = "main"
    /\ parsed = NotParsed
    /\ runs = <<>>
    /\ host = AnyHost
    /\ validator = NewValidator
    /\ disk \in {<<c>> : c \in Packages}
    /\ disk0 = disk
    /\ standards = StandardsStart
    /\ compose = YDict(<<>>)
    /\ findings = <<>>
    /\ manager = NoCommand

\* main (lines 248-262): validate_container_structure on the directory,
\* and the exit status
ValidateContainer ==
    /\ pc = "main"
    /\ LET structure == validate_container_structure(disk[1])
       IN  /\ disk' = <<structure.container>>
           /\ findings' =
                  <<[checker |-> "validate_container_structure",
                     service |-> disk[1].name,
                     result |-> Returned(structure.errors),
                     status |-> IF structure.errors # <<>> THEN 1 ELSE 0]>>
    /\ pc' = "done"
    /\ UNCHANGED manager
    /\ UNCHANGED <<content, parsed, runs, host, validator, disk0, standards, compose>>

NextContainer == ValidateContainer

SpecContainer == InitContainer /\ [][NextContainer]_vars

-----------------------------------------------------------------------------
(* SpecManifest: the two checkers of pyproject.toml, poetry_validator.main *)
(* and ServiceValidator.validate_pyproject_toml, on the same container     *)

\* table together with every table of FullTables below it
Subtree(table) ==
    {t \in FullTables : Len(t) >= Len(table) /\ SubSeq(t, 1, Len(table)) = table}

\* the tables a pyproject.toml may lack
OptionalTables ==
    { <<"tool", "poetry", "dependencies">>, <<"tool", "poetry", "group">>, <<"build-system">>,
      <<"tool", "black">>, <<"tool", "mypy">> }

ManifestTables ==
    {FullTables \ UNION {Subtree(t) : t \in gone} : gone \in SUBSET OptionalTables}
    \cup {{<<"tool">>}, {}}

Manifests ==
    {Toml(TRUE, tables, fields, python) :
        tables \in ManifestTables,
        fields \in SUBSET {"name", "version", "description"},
        python \in BOOLEAN}
    \cup {Toml(FALSE, {}, {}, FALSE)}

\* a python dependency needs the table it stands in, and a field the
\* table [tool.poetry]
WellFormed(m) ==
    /\ m.python => <<"tool", "poetry", "dependencies">> \in m.tables
    /\ m.fields # {} => <<"tool", "poetry">> \in m.tables

ManifestContainers ==
    {[Package("app", <<"containers">>, top_files, Tidy, Tidy, Tidy, Tidy)
         EXCEPT !.pyproject = m] :
        top_files \in { <<"Dockerfile", "pyproject.toml">>,
                        <<"Dockerfile", "pyproject.toml", "requirements.txt">> },
        m \in {x \in Manifests : WellFormed(x)}}

InitManifest ==
    /\ content = <<>>
    /\ pc = "poetry_validator"
    /\ parsed = NotParsed
    /\ runs = <<>>
    /\ host = AnyHost
    /\ validator = NewValidator
    /\ disk \in {<<c>> : c \in ManifestContainers}
    /\ disk0 = disk
    /\ standards = StandardsStart
    /\ compose = YDict(<<>>)
    /\ findings = <<>>
    /\ manager = NoCommand

\* poetry_validator.main: validate_poetry_config on the container, what
\* it printed and the exit status
PoetryValidatorMain ==
    /\ pc = "poetry_validator"
    /\ findings' =
           Append(findings,
                  [checker |-> "validate_poetry_config",
                   service |-> disk[1].name,
                   result |-> Returned(poetry_config_errors(disk[1])),
                   status |-> IF validate_poetry_config(disk[1]) THEN 0 ELSE 1])
    /\ pc' = "validate_service"
    /\ UNCHANGED manager
    /\ UNCHANGED <<content, parsed, runs, host, validator, standardsVars, compose>>

\* ServiceValidator.validate_pyproject_toml on the same pyproject.toml
ServiceValidatorPyproject ==
    /\ pc = "validate_service"
    /\ LET outcome ==
               validate_pyproject_toml(disk[1].pyproject.tables, disk[1].pyproject.parses)
       IN  findings' =
               Append(findings,
                      [checker |-> "validate_pyproject_toml",
                       service |-> disk[1].name,
                       result |-> Returned(outcome.errors),
                       status |-> IF outcome.passed THEN 0 ELSE 1])
    /\ pc' = "done"
    /\ UNCHANGED manager
    /\ UNCHANGED <<content, parsed, runs, host, validator, standardsVars, compose>>

NextManifest ==
    \/ PoetryValidatorMain
    \/ ServiceValidatorPyproject

SpecManifest == InitManifest /\ [][NextManifest]_vars

-----------------------------------------------------------------------------
(* SpecVersion: one run of container_manager's version subcommand on a     *)
(* container directory                                                     *)

PyLine(key, value, quoted) == [key |-> key, value |-> value, quoted |-> quoted]

NameLine == PyLine("name", <<"a", "p", "p">>, TRUE)

PyprojectFiles ==
    { <<NameLine, PyLine("version", <<"1", DOT, "2", DOT, "9">>, TRUE)>>,
      <<NameLine, PyLine("version", <<"0", "1", DOT, "9", DOT, "0">>, TRUE),
        PyLine("python_version", <<"3", DOT, "1", "1">>, TRUE)>>,
      <<NameLine, PyLine("version", <<"1", DOT, "0">>, TRUE)>>,
      <<NameLine, PyLine("version", <<"1", DOT, "x", DOT, "0">>, TRUE)>>,
      <<NameLine, PyLine("version", <<"1", DOT, "2", DOT, "9">>, FALSE)>>,
      <<NameLine>> }

DockerLine(instr) == [instr |-> instr, version |-> <<>>, quoted |-> FALSE]

LabelLine(version, quoted) ==
    [instr |-> "LABEL", version |-> version, quoted |-> quoted]

DockerfileFiles ==
    { <<DockerLine("FROM"), DockerLine("RUN")>>,
      <<DockerLine("FROM"), DockerLine("ENV"), DockerLine("ENV"),
        DockerLine("RUN"), DockerLine("ENV")>>,
      <<DockerLine("FROM"), LabelLine(<<"1", DOT, "2", DOT, "9">>, TRUE),
        DockerLine("RUN")>>,
      <<DockerLine("FROM"), LabelLine(<<"1", DOT, "2", DOT, "9">>, FALSE)>>,
      <<DockerLine("RUN")>>,
      <<>> }

File(lines) == [exists |-> TRUE, lines |-> lines]

NoFile == [exists |-> FALSE, lines |-> <<>>]

\* the container directories the subcommand is run on: the directory may
\* be missing, and so may each of its two files
VersionedContainers ==
    {[exists |-> TRUE, pyproject |-> p, dockerfile |-> d] :
        p \in {NoFile} \cup {File(ls) : ls \in PyprojectFiles},
        d \in {NoFile} \cup {File(ls) : ls \in DockerfileFiles}}
    \cup {[exists |-> FALSE, pyproject |-> NoFile, dockerfile |-> NoFile]}

\* the command lines argparse accepts for the version subcommand
VersionArgs ==
    {[version_action |-> "get", bump_type |-> "", version |-> <<>>]}
    \cup {[version_action |-> "bump", bump_type |-> b, version |-> <<>>] :
             b \in {"major", "minor", "patch"}}
    \cup {[version_action |-> "set", bump_type |-> "", version |-> v] :
             v \in { <<"2", DOT, "0", DOT, "0">>,
                     <<"2", DOT, "0">>,
                     <<"v", "2", DOT, "0", DOT, "0">> }}

InitVersion ==
    /\ content = <<>>
    /\ pc = "main"
    /\ parsed = NotParsed
    /\ runs = <<>>
    /\ host = AnyHost
    /\ validator = NewValidator
    /\ disk \in {<<c>> : c \in VersionedContainers}
    /\ disk0 = disk
    /\ standards = StandardsStart
    /\ compose = YDict(<<>>)
    /\ findings = <<>>
    /\ manager \in {[command |-> "version", args |-> a, status |-> 0,
                     written |-> <<>>, new_version |-> <<>>] : a \in VersionArgs}

\* main (lines 388-392) and handle_version_command: the whole subcommand,
\* up to its return or its sys.exit(1)
HandleVersionCommand ==
    /\ pc = "main"
    /\ manager.command = "version"
    /\ LET done == handle_version_command(manager.args, disk[1])
       IN  /\ disk' = <<done.container>>
           /\ manager' = [manager EXCEPT !.status = done.status,
                                         !.written = done.written,
                                         !.new_version = done.new_version]
    /\ pc' = "done"
    /\ UNCHANGED <<content, parsed, runs, host, validator, disk0, standards, composeVars>>

NextVersion == HandleVersionCommand

SpecVersion == InitVersion /\ [][NextVersion]_vars

-----------------------------------------------------------------------------
(* SpecBuild: one run of container_manager's build subcommand               *)

\* the command lines argparse accepts for the build subcommand
\* (tag_latest is not args.no_latest)
BuildArgs ==
    {[container_name |-> <<"app">>, version |-> v, push |-> p,
      registry |-> r, tag_latest |-> t] :
        v \in {<<>>, <<"2", DOT, "0", DOT, "0">>},
        p \in BOOLEAN,
        r \in {<<>>, <<"registry.local">>},
        t \in BOOLEAN}

\* what the host answers to the commands of one run, in the order they are issued
DockerOutcomes ==
    [1..4 -> {"ok", "CalledProcessError", "FileNotFoundError"}]

InitBuild ==
    /\ content = <<>>
    /\ pc = "main"
    /\ parsed = NotParsed
    /\ runs = <<>>
    /\ host = AnyHost
    /\ validator = NewValidator
    /\ disk \in {<<c>> : c \in VersionedContainers}
    /\ disk0 = disk
    /\ standards = StandardsStart
    /\ compose = YDict(<<>>)
    /\ findings = <<>>
    /\ manager \in {[command |-> "build", args |-> a, status |-> 0,
                     issued |-> <<>>] : a \in BuildArgs}

\* main (lines 394-395) and handle_build_command: the whole subcommand
HandleBuildCommand ==
    /\ pc = "main"
    /\ manager.command = "build"
    /\ \E docker \in DockerOutcomes :
           LET done == build_container(manager.args, disk[1], docker)
           IN  manager' = [manager EXCEPT !.status = done.status,
                                         !.issued = done.issued]
    /\ pc' = "done"
    /\ UNCHANGED <<content, parsed, runs, host, validator, standardsVars, composeVars>>

NextBuild == HandleBuildCommand

SpecBuild == InitBuild /\ [][NextBuild]_vars

-----------------------------------------------------------------------------
(* SpecSecrets: one call of EnvSecretChecker.check_file on a file          *)

MaxSecretLines == 3

SecretLines ==
    { PasswordLine, CommentedLine, SafePasswordLine, EmailLine, SafePortLine,
      PortLine, PlainLine, AddressLine, UserPasswordLine, TokensLine }

RECURSIVE SecretFilesOf(_)
SecretFilesOf(n) ==
    IF n = 0 THEN {<<>>}
    ELSE LET shorter == SecretFilesOf(n - 1)
         IN  shorter \cup {Append(ls, l) : ls \in shorter, l \in SecretLines}

InitSecrets ==
    /\ content \in SecretFilesOf(MaxSecretLines)
    /\ pc = "main"
    /\ parsed = NotParsed
    /\ runs = <<>>
    /\ host = AnyHost
    /\ validator = NewValidator
    /\ disk = <<>>
    /\ disk0 = <<>>
    /\ standards = StandardsStart
    /\ compose = YDict(<<>>)
    /\ findings = <<>>
    /\ manager = NoCommand

\* main (lines 181-184): check_file on the file given as path
CheckFile ==
    /\ pc = "main"
    /\ LET checked == check_file(content)
       IN  findings' = <<[checker |-> "check_file",
                          result |-> Returned(checked.findings),
                          printed |-> checked.printed]>>
    /\ pc' = "done"
    /\ UNCHANGED manager
    /\ UNCHANGED <<content, parsed, runs, host, validator, standardsVars, compose>>

NextSecrets == CheckFile

SpecSecrets == InitSecrets /\ [][NextSecrets]_vars

-----------------------------------------------------------------------------
(* Specification of the compose checkers: check_networks,                  *)
(* check_dependencies and check_service_config of check_docker_compose,    *)
(* each applied to the same compose mapping, in the order main calls them  *)

MaxServices == 2

\* service names, character by character
WorkerApi == <<"w", "o", "r", "k", "e", "r", "-", "a", "p", "i">>

Gateway == <<"g", "a", "t", "e", "w", "a", "y">>

Db == <<"d", "b">>

\* a dict from the keys and the values given; an absent key is given as
\* <<>>, a present one as <<value>>
DictOf(keys, options) ==
    YDict(Flatten([i \in 1..Len(keys) |->
                      IF options[i] = <<>> THEN <<>>
                      ELSE << <<Lit(keys[i]), options[i][1]>> >>]))

\* a dict that has the keys given, each with a value the checkers do not read
Keyed(keys) == YDict([i \in 1..Len(keys) |-> <<Lit(keys[i]), YStr(Lit("value"))>>])

ServiceConfig(build, environment, volumes, healthcheck, depends_on) ==
    DictOf(<<"build", "environment", "volumes", "healthcheck", "depends_on">>,
           <<build, environment, volumes, healthcheck, depends_on>>)

FullBuild == Keyed(<<"context", "dockerfile">>)

FullEnvironment ==
    YList(<<YStr(<<"PYTHONPATH", EQ, "/app">>), YStr(<<"ENV", EQ, "dev">>)>>)

FullVolumes == YList(<<YStr(<<"./data", ":", "/data">>), YStr(<<"./src", ":", "/app">>)>>)

FullHealthcheck == Keyed(<<"test", "interval", "timeout", "retries">>)

\* depends_on in map form: for each dependency the keys of its entry, or
\* "null" for an entry with no value
DependsOn(entries) ==
    YDict([i \in 1..Len(entries) |->
              <<entries[i][1],
                IF entries[i][2] = "null" THEN YNull
                ELSE IF entries[i][2] = "condition" THEN Keyed(<<"condition">>)
                ELSE Keyed(<<"restart">>)>>])

ServiceConfigs ==
    { ServiceConfig(<<FullBuild>>, <<FullEnvironment>>, <<FullVolumes>>, <<FullHealthcheck>>,
                    <<>>),
      ServiceConfig(<<FullBuild>>, <<FullEnvironment>>, <<FullVolumes>>, <<FullHealthcheck>>,
                    <<DependsOn(<< <<Db, "condition">> >>)>>),
      ServiceConfig(<<FullBuild>>, <<FullEnvironment>>, <<FullVolumes>>, <<FullHealthcheck>>,
                    <<DependsOn(<< <<Db, "condition">>, <<Gateway, "restart">> >>)>>),
      ServiceConfig(<<FullBuild>>, <<FullEnvironment>>, <<FullVolumes>>, <<FullHealthcheck>>,
                    <<DependsOn(<< <<Db, "restart">>, <<Gateway, "restart">> >>)>>),
      ServiceConfig(<<FullBuild>>, <<FullEnvironment>>, <<FullVolumes>>, <<FullHealthcheck>>,
                    <<DependsOn(<< <<Db, "restart">>, <<Gateway, "null">> >>)>>),
      ServiceConfig(<<FullBuild>>, <<FullEnvironment>>, <<FullVolumes>>, <<FullHealthcheck>>,
                    <<YList(<<YStr(Db), YStr(Gateway)>>)>>),
      ServiceConfig(<<YStr(Lit("."))>>, <<YDict(<< <<Lit("PYTHONPATH"), YStr(Lit("/app"))>> >>)>>,
                    <<YList(<<YStr(<<"./data", ":", "/data">>)>>)>>,
                    <<Keyed(<<"test", "interval">>)>>, <<>>),
      ServiceConfig(<<Keyed(<<"context">>)>>,
                    <<YList(<<YDict(<< <<Lit("ENV"), YStr(Lit("dev"))>> >>)>>)>>,
                    <<>>, <<>>, <<YList(<<YStr(Db)>>)>>),
      ServiceConfig(<<>>, <<YNull>>, <<FullVolumes>>, <<FullHealthcheck>>, <<>>),
      ServiceConfig(<<FullBuild>>, <<>>, <<YList(<<YNull, YStr(<<"./src", ":", "/app">>)>>)>>,
                    <<YNull>>, <<>>),
      YNull }

ServiceNames == <<WorkerApi, Gateway, Db>>

\* the services mappings of up to n services, named in the order of
\* ServiceNames
RECURSIVE ServicesOf(_)
ServicesOf(n) ==
    IF n = 0 THEN {<<>>}
    ELSE LET shorter == ServicesOf(n - 1)
             longest == {items \in shorter : Len(items) = n - 1}
         IN  shorter \cup {Append(items, <<ServiceNames[n], config>>) :
                              items \in longest, config \in ServiceConfigs}

NetworksOptions ==
    { <<>>, <<YNull>>, <<Keyed(<<"default">>)>>, <<Keyed(<<"default", "platform-net">>)>> }

\* the compose mappings that have a services key
ComposeConfigs ==
    {DictOf(<<"services", "networks">>, <<services, networks>>) :
        services \in {<<YNull>>} \cup {<<YDict(items)>> : items \in ServicesOf(MaxServices)},
        networks \in NetworksOptions}

\* the <<name, config>> pairs that "compose_config['services'].items()" yields
service_items(compose_config) ==
    LET services == Get(compose_config, Lit("services"))
    IN  IF services.kind = "dict" THEN services.items ELSE <<>>

Finding(checker, service, result) ==
    [checker |-> checker, service |-> service, result |-> result]

InitCompose ==
    /\ content = <<>>
    /\ pc = "networks"
    /\ parsed = NotParsed
    /\ runs = <<>>
    /\ host = AnyHost
    /\ validator = NewValidator
    /\ disk = <<>>
    /\ disk0 = <<>>
    /\ standards = StandardsStart
    /\ compose \in ComposeConfigs
    /\ findings = <<>>
    /\ manager = NoCommand

CheckNetworks ==
    /\ pc = "networks"
    /\ findings' = Append(findings, Finding("check_networks", <<>>, check_networks(compose)))
    /\ pc' = "dependencies"
    /\ UNCHANGED manager
    /\ UNCHANGED <<content, parsed, runs, host, validator, standardsVars, compose>>

CheckDependencies ==
    /\ pc = "dependencies"
    /\ findings' =
           Append(findings, Finding("check_dependencies", <<>>, check_dependencies(compose)))
    /\ pc' = IF service_items(compose) = <<>> THEN "done" ELSE "services"
    /\ UNCHANGED manager
    /\ UNCHANGED <<content, parsed, runs, host, validator, standardsVars, compose>>

\* check_service_config on the next service of the mapping
CheckServiceConfig ==
    /\ pc = "services"
    /\ LET checked == Len(findings) - 2
           item == service_items(compose)[checked + 1]
       IN  /\ \E seed \in HashSeeds :
                  findings' =
                      Append(findings,
                             Finding("check_service_config", item[1],
                                     check_service_config(item[1], item[2], seed)))
           /\ pc' = IF checked + 1 = Len(service_items(compose)) THEN "done" ELSE "services"
    /\ UNCHANGED manager
    /\ UNCHANGED <<content, parsed, runs, host, validator, standardsVars, compose>>

NextCompose ==
    \/ CheckNetworks
    \/ CheckDependencies
    \/ CheckServiceConfig

SpecCompose == InitCompose /\ [][NextCompose]_vars

-----------------------------------------------------------------------------
(* SpecComposeService: validate_compose_service and is_python_service, as  *)
(* validate_compose_file applies them to a service of the compose file     *)

Api == <<"A", "P", "I">>

WebApp == <<"w", "e", "b", "a", "p", "p">>

ValidatedNames == {WorkerApi, Gateway, Db, Dev, Api, WebApp}

ContextOptions(name) ==
    { <<>>, <<YStr(ContainerContext(name))>>, <<YStr(Lit("."))>>, <<YStr(Lit("../.."))>>,
      <<YStr(ContainerContext(DevEnvironment))>>, <<YStr(Lit("./services"))>> }

DockerfileOptions(name) ==
    { <<>>, <<YStr(Lit("Dockerfile"))>>, <<YStr(ContainerPath(name) \o Lit("Dockerfile"))>>,
      <<YStr(ContainerPath(DevEnvironment) \o Lit("Dockerfile"))>>,
      <<YStr(Lit("docker/Dockerfile"))>> }

ArgsOptions ==
    { <<>>,
      <<YDict(<< <<(<<"PYTHON", "_VERSION">>), YStr(Lit("3.11"))>> >>)>>,
      <<YDict(<< <<(<<"PYTHON", "_VERSION">>), YStr(Lit("3.11"))>>,
                 <<(<<"POETRY", "_VERSION">>), YStr(Lit("1.7"))>> >>)>>,
      <<YDict(<< <<(<<"install_", "poetry">>), YStr(Lit("true"))>> >>)>>,
      <<YList(<<YStr(<<"POETRY", "_VERSION", EQ, "1.7">>)>>)>> }

BuildOptions(name) ==
    {<<>>, <<YStr(ContainerContext(name))>>}
    \cup {<<DictOf(<<"context", "dockerfile", "args">>, <<context, dockerfile, args>>)>> :
             context \in ContextOptions(name), dockerfile \in DockerfileOptions(name),
             args \in ArgsOptions}

EnvironmentOptions ==
    { <<>>, <<FullEnvironment>>, <<YList(<<YStr(<<"ENV", EQ, "dev">>)>>)>>,
      <<YDict(<< <<Lit("PYTHONPATH"), YStr(Lit("/app"))>> >>)>>,
      <<YDict(<< <<Lit("ENV"), YStr(Lit("dev"))>> >>)>> }

VolumesOptions ==
    { <<>>, <<FullVolumes>>,
      <<YList(<<YStr(<<"./", "pyproject.toml", ":", "/app/", "pyproject.toml">>)>>)>> }

\* the services mappings of one service
ValidatedServices ==
    UNION {{YDict(<< <<name, DictOf(<<"build", "environment", "volumes">>,
                                    <<build, environment, volumes>>)>> >>) :
               build \in BuildOptions(name), environment \in EnvironmentOptions,
               volumes \in VolumesOptions} : name \in ValidatedNames}

InitComposeService ==
    /\ content = <<>>
    /\ pc = "validate"
    /\ parsed = NotParsed
    /\ runs = <<>>
    /\ host = AnyHost
    /\ validator = NewValidator
    /\ disk = <<>>
    /\ disk0 = <<>>
    /\ standards = StandardsStart
    /\ compose \in ValidatedServices
    /\ findings = <<>>
    /\ manager = NoCommand

\* the pass of the loop of validate_compose_file over the service, and the
\* answer of is_python_service for its name
ValidateComposeService ==
    /\ pc = "validate"
    /\ LET item == compose.items[1]
       IN  findings' =
               Append(findings,
                      [checker |-> "validate_compose_service",
                       service |-> item[1],
                       result |-> validate_compose_service(item[1], item[2]),
                       python_service |-> is_python_service(item[1])])
    /\ pc' = "done"
    /\ UNCHANGED manager
    /\ UNCHANGED <<content, parsed, runs, host, validator, standardsVars, compose>>

NextComposeService == ValidateComposeService

SpecComposeService == InitComposeService /\ [][NextComposeService]_vars

-----------------------------------------------------------------------------
(* Specification of the six checks: the loop of check_dockerfile.main      *)
(* (lines 186-201) on a list of instructions as parse_dockerfile returns   *)
(* it, one pass for each check                                             *)

MaxInstructions == 3

checks ==
    <<"Base image", "Environment variables", "Poetry installation",
      "Dependencies installation", "Healthcheck", "Labels">>

SampleInstructions ==
    { << <<"FROM">>, <<"python:3.11", "-slim">> >>,
      << <<"ENV">>, <<"PYTHONUNBUFFERED", EQ, "1">> >>,
      << <<"ENV">>, <<"POETRY_VERSION", SP, "1.7">> >>,
      << <<"ENV">>, <<"VENV_PATH", SP, "/opt/venv", EQ, "prod">> >>,
      << <<"ENV">>, <<"POETRY_HOME", EQ, "/opt", SP, "PYSETUP_PATH", EQ, "/p">> >>,
      << <<"HEALTHCHECK">>, HealthOptions \o <<SP, "CMD", SP, "true">> >>,
      << <<"HEALTHCHECK">>, <<"--interval", EQ, "5s", SP, "CMD", SP, "true">> >>,
      << <<"LABEL">>, LabelToken(<<"maintainer">>) >>,
      << <<"LABEL">>,
         LabelToken(<<"version">>) \o <<SP, SP>> \o LabelToken(<<"description">>) >>,
      << <<"LABEL">>, <<"maintainer", SP, "team">> >> }

RECURSIVE InstructionLists(_)
InstructionLists(n) ==
    IF n = 0 THEN {<<>>}
    ELSE LET shorter == InstructionLists(n - 1)
         IN  shorter \cup {Append(ins, i) : ins \in shorter, i \in SampleInstructions}

\* check_func(instructions), for the check_func of the k-th entry of checks
run_check(k, instructions, seed) ==
    CASE k = 1 -> check_base_image(instructions)
      [] k = 2 -> check_environment_variables(instructions, seed)
      [] k = 3 -> check_poetry_installation(instructions)
      [] k = 4 -> check_dependencies_installation(instructions)
      [] k = 5 -> check_healthcheck(instructions)
      [] k = 6 -> check_labels(instructions, seed)

InitChecks ==
    /\ content = <<>>
    /\ pc = "checks"
    /\ parsed \in {Returned(ins) : ins \in InstructionLists(MaxInstructions)}
    /\ runs = <<>>
    /\ host = AnyHost
    /\ validator = NewValidator
    /\ disk = <<>>
    /\ disk0 = <<>>
    /\ standards = StandardsStart
    /\ compose = YDict(<<>>)
    /\ findings = <<>>
    /\ manager = NoCommand

\* one pass of "for check_name, check_func in checks"
RunNextCheck ==
    /\ pc = "checks"
    /\ LET k == Len(runs) + 1
       IN  /\ \E seed \in HashSeeds :
                  runs' = Append(runs, [check |-> checks[k],
                                        errors |-> run_check(k, parsed.value, seed)])
           /\ pc' = IF k = Len(checks) THEN "done" ELSE "checks"
    /\ UNCHANGED manager
    /\ UNCHANGED <<content, parsed, host, validator, standardsVars, composeVars>>

NextChecks == RunNextCheck

SpecChecks == InitChecks /\ [][NextChecks]_vars

-----------------------------------------------------------------------------
(* Claims about the parser                                                 *)

PhysicalLines(text) == split_sep(text, NL)

\* a physical line that is neither blank nor a comment
Significant(l) == strip(l) # <<>> /\ Head(strip(l)) # HASH

\* a significant line that ends with the continuation marker
Continued(l) == Significant(l) /\ endswith(strip(l), <<BS>>)

Logical(l) == Significant(l) /\ ~Continued(l)

SignificantLines(text) == SelectSeq(PhysicalLines(text), Significant)

NoContinuation(text) ==
    \A i \in 1..Len(PhysicalLines(text)) : ~Continued(PhysicalLines(text)[i])

IsWord(a) == a \notin Whitespace \cup {BS}

\* the atoms of s that are neither whitespace nor the marker
Words(s) == SelectSeq(s, IsWord)

InstructionWords(ins) ==
    Flatten([i \in 1..Len(ins) |-> Words(ins[i][1]) \o Words(ins[i][2])])

LineWords(ls) == Flatten([i \in 1..Len(ls) |-> Words(ls[i])])

\* C1: for a text in which no line ends with the continuation marker,
\* parse_dockerfile returns one (keyword, argument) pair for each non-blank,
\* non-comment physical line, in the order of those lines.
C1_OnePairPerLine ==
    (pc = "parsed" /\ NoContinuation(content)) =>
        LET sig == SignificantLines(content)
        IN  /\ parsed.raised = ""
            /\ Len(parsed.value) = Len(sig)
            /\ \A i \in 1..Len(sig) :
                   /\ parsed.value[i][1] = Head(split_ws(sig[i]))
                   /\ split_ws(parsed.value[i][2]) = Tail(split_ws(sig[i]))

\* C2: a line that is a bare keyword, with no whitespace and no argument,
\* is parsed without an exception and yields an instruction whose argument
\* is the empty string.
C2_BareKeywordParses ==
    LET sig == SignificantLines(content)
        bare == {i \in 1..Len(sig) : Len(split_ws(sig[i])) = 1}
    IN  (pc = "parsed" /\ NoContinuation(content) /\ bare # {}) =>
            /\ parsed.raised = ""
            /\ \A i \in bare :
                   /\ i <= Len(parsed.value)
                   /\ parsed.value[i] = <<strip(sig[i]), <<>>>>

\* C3: every non-blank, non-comment physical line goes into exactly one
\* returned instruction: what the instructions hold is what those lines
\* hold, nothing dropped and nothing twice, also when the last line ends
\* with the continuation marker.  (Stated for the texts the parser returns
\* for, so that a violation is a line lost by a call that returned.)
C3_EveryLineInOneInstruction ==
    (pc = "parsed" /\ parsed.raised = "") =>
        InstructionWords(parsed.value) = LineWords(SignificantLines(content))

\* C4: for a text with lines that end with the continuation marker, the
\* number of instructions returned is at most the number of non-blank,
\* non-comment lines that do not end with the marker.
C4_AtMostLogicalLines ==
    LET ls == PhysicalLines(content)
    IN  (pc = "parsed" /\ \E i \in 1..Len(ls) : Continued(ls[i])) =>
            Len(parsed.value) <= Len(SelectSeq(ls, Logical))

\* a text with a continued line that was merged into an instruction
C4_Witness ==
    LET ls == PhysicalLines(content)
    IN  /\ pc = "parsed"
        /\ parsed.raised = ""
        /\ \E i \in 1..Len(ls) : Continued(ls[i])
        /\ Len(parsed.value) = 2
        /\ Len(SelectSeq(ls, Logical)) = 2
        /\ Len(SignificantLines(content)) = 3

\* the non-blank, non-comment lines of the text, each without the
\* whitespace around it
StrippedLines(text) ==
    LET sig == SignificantLines(text)
    IN  [i \in 1..Len(sig) |-> strip(sig[i])]

\* a line without its marker and without the whitespace around the rest
Fragment(l) == strip(IF endswith(l, <<BS>>) THEN SubSeq(l, 1, Len(l) - 1) ELSE l)

\* the keyword of a stripped line: what stands before its first whitespace
KeywordOf(l) ==
    LET ws == {k \in 1..Len(l) : l[k] \in Whitespace}
    IN  IF ws = {} THEN Fragment(l) ELSE SubSeq(l, 1, Min(ws) - 1)

\* the rest of a stripped line after its keyword
RemainderOf(l) ==
    LET ws == {k \in 1..Len(l) : l[k] \in Whitespace}
    IN  IF ws = {} THEN <<>> ELSE SubSeq(l, Min(ws), Len(l))

\* line i of ls opens an instruction spread over continuation lines, and
\* line j is its first line without a marker
Spread(ls, i, j) ==
    /\ endswith(ls[i], <<BS>>)
    /\ i = 1 \/ ~endswith(ls[i - 1], <<BS>>)
    /\ i < j
    /\ ~endswith(ls[j], <<BS>>)
    /\ \A k \in i..(j - 1) : endswith(ls[k], <<BS>>)

\* C25: for an instruction spread over continuation lines, the instruction
\* returned has the keyword of the first line, and as argument the rest of
\* the first line and every following line up to the first one without a
\* marker, each without its marker and the whitespace around it, joined by
\* single spaces; blank and comment lines in between do not count.
C25_ContinuationLinesJoined ==
    pc = "parsed" =>
        LET ls == StrippedLines(content)
            Before(i) == Cardinality({k \in 1..(i - 1) : ~endswith(ls[k], <<BS>>)})
        IN  \A i \in 1..Len(ls) : \A j \in 1..Len(ls) :
                Spread(ls, i, j) =>
                    /\ parsed.raised = ""
                    /\ Before(i) + 1 <= Len(parsed.value)
                    /\ parsed.value[Before(i) + 1]
                           = <<KeywordOf(ls[i]),
                               join(<<SP>>,
                                    <<Fragment(RemainderOf(ls[i]))>>
                                    \o [k \in 1..(j - i) |-> Fragment(ls[i + k])])>>

-----------------------------------------------------------------------------
(* Claims about the Dockerfile checker                                     *)

\* the argument of a one-line instruction written as keyword, space, rest
ArgsOf(line) == SubSeq(line, 3, Len(line))

\* the printed lines that are errors of one of the six checks
IsFinding(l) == l.check # "" /\ l.msg # "errors:"
Findings(printed) == SelectSeq(printed, IsFinding)

\* the script can read its template and the Dockerfile
HostOk == host.template_ok /\ host.is_file

HasInstruction(ins, keyword, args) ==
    \E i \in 1..Len(ins) : ins[i] = <<keyword, args>>

\* what C5 lists, but for the RUN line: FROM python:3.11-slim first, an ENV
\* instruction for each required key (KEY=VALUE or KEY VALUE), a COPY of
\* both manifest files, a HEALTHCHECK with the three options, and LABELs
\* for maintainer, version and description
CompliantButRun(ins) ==
    /\ ins # <<>>
    /\ ins[1] = <<<<"FROM">>, <<"python:3.11", "-slim">>>>
    /\ \A k \in 1..Len(required_env_vars) :
           \/ HasInstruction(ins, <<"ENV">>, ArgsOf(EnvEqLine(required_env_vars[k])))
           \/ HasInstruction(ins, <<"ENV">>, ArgsOf(EnvSpLine(required_env_vars[k])))
    /\ HasInstruction(ins, <<"COPY">>, ArgsOf(CopyBothLine))
    /\ HasInstruction(ins, <<"HEALTHCHECK">>, HealthOptions \o <<SP, "CMD", SP, "true">>)
    /\ \A k \in 1..Len(required_labels) :
           \/ HasInstruction(ins, <<"LABEL">>, LabelToken(required_labels[k]))
           \/ HasInstruction(ins, <<"LABEL">>, ArgsOf(LabelLines("one")[1]))

HasInstaller(ins) == HasInstruction(ins, <<"RUN">>, ArgsOf(InstallerLine))

HasPoetryInstall(ins) == HasInstruction(ins, <<"RUN">>, ArgsOf(PoetryInstallLine))

C6_BaseImageMismatchFirst ==
    LET sig == SignificantLines(content)
    IN  \A r \in 1..Len(runs) :
            (HostOk /\ sig # <<>> /\ sig[1] = FromLine(<<"node:18">>))
            => LET found == Findings(runs[r].out.printed)
               IN  /\ found # <<>>
                   /\ found[1] = Line("Base image", "Base image must be python:3.11", <<>>)

\* C9: two runs of the checker on the same unchanged Dockerfile print the
\* same findings in the same order.
C9_SameFindingsTwice ==
    (pc = "done" /\ HostOk)
        => Findings(runs[1].out.printed) = Findings(runs[2].out.printed)

-----------------------------------------------------------------------------
(* Claims about the service validator                                      *)

\* no exception left a validation method in this run
NoneRaised == \A i \in 1..Len(validator.table) : validator.table[i] # "Error"

\* C7: validate() returns True exactly when the run recorded no error; a run
\* that recorded only warnings (missing test directories, missing
\* environment variables) passes, a run that recorded an error fails.
C7_PassIffNoError ==
    (pc = "done" /\ NoneRaised) =>
        (validator.returned <=> validator.errors = <<>>)

-----------------------------------------------------------------------------
(* Claims about the six checks                                             *)

\* the errors that the check named check returned, once it has run
ErrorsOf(check) ==
    LET Of(r) == r.check = check
    IN  SelectSeq(runs, Of)[1].errors

HasRun(check) == \E k \in 1..Len(runs) : runs[k].check = check

Elements(seq) == {seq[i] : i \in 1..Len(seq)}

\* the first token of args, delimited by whitespace or "="
FirstToken(args) ==
    LET stops == {i \in 1..Len(args) : args[i] \in Whitespace \cup {EQ}}
    IN  IF stops = {} THEN args ELSE SubSeq(args, 1, Min(stops) - 1)

RequiredEnvKeys ==
    { <<"PYTHONUNBUFFERED">>, <<"PYTHONDONTWRITEBYTECODE">>, <<"POETRY_VERSION">>,
      <<"POETRY_HOME">>, <<"POETRY_VIRTUALENVS_IN_PROJECT">>, <<"POETRY_NO_INTERACTION">>,
      <<"PYSETUP_PATH">>, <<"VENV_PATH">> }

\* C13: the key recorded for an ENV instruction is the first token of its
\* argument, delimited by whitespace or "=": a required key is reported
\* missing exactly when no ENV instruction has it as its first token, also
\* when the value of a KEY VALUE instruction contains "=".
C13_EnvKeyIsFirstToken ==
    HasRun("Environment variables") =>
        \A key \in RequiredEnvKeys :
            (ErrFor("Missing required environment variable", key)
                 \in Elements(ErrorsOf("Environment variables")))
            <=> ~\E i \in 1..Len(parsed.value) :
                     /\ parsed.value[i][1] = <<"ENV">>
                     /\ FirstToken(parsed.value[i][2]) = key

\* C14: check_healthcheck reports no error exactly when some HEALTHCHECK
\* instruction of the list has --interval, --timeout and --retries in its
\* argument, wherever it stands among the HEALTHCHECK instructions.
C14_AnyHealthcheckWithOptions ==
    HasRun("Healthcheck") =>
        (ErrorsOf("Healthcheck") = <<>>
         <=> \E i \in 1..Len(parsed.value) :
                 /\ parsed.value[i][1] = <<"HEALTHCHECK">>
                 /\ \A option \in {"--interval", "--timeout", "--retries"} :
                        \E n \in 1..Len(parsed.value[i][2]) : parsed.value[i][2][n] = option)

\* args[a..b] is a whitespace-delimited token of args
IsToken(args, a, b) ==
    /\ \A n \in a..b : args[n] \notin Whitespace
    /\ a = 1 \/ args[a - 1] \in Whitespace
    /\ b = Len(args) \/ args[b + 1] \in Whitespace

\* some LABEL instruction has a key=value token whose key is label
LabelCovered(ins, label) ==
    \E i \in 1..Len(ins) :
        /\ ins[i][1] = <<"LABEL">>
        /\ \E a \in 1..Len(ins[i][2]) : \E b \in a..Len(ins[i][2]) : \E e \in a..b :
               /\ IsToken(ins[i][2], a, b)
               /\ ins[i][2][e] = EQ
               /\ \A n \in a..(e - 1) : ins[i][2][n] # EQ
               /\ SubSeq(ins[i][2], a, e - 1) = label

UncoveredLabels(ins) ==
    {label \in {<<"maintainer">>, <<"version">>, <<"description">>} : ~LabelCovered(ins, label)}

\* C15: check_labels reports exactly one error for each of maintainer,
\* version and description that no key=value token of any LABEL instruction
\* covers, and so no error exactly when the LABEL instructions together
\* cover the three keys.
C15_OneErrorPerUncoveredLabel ==
    HasRun("Labels") =>
        /\ Len(ErrorsOf("Labels")) = Cardinality(UncoveredLabels(parsed.value))
        /\ Elements(ErrorsOf("Labels")) =
               {ErrFor("Missing required label", label) :
                   label \in UncoveredLabels(parsed.value)}

\* check_labels has found nothing missing in a list whose labels are split
\* over two LABEL instructions
C15_Witness ==
    /\ HasRun("Labels")
    /\ ErrorsOf("Labels") = <<>>
    /\ Cardinality({i \in 1..Len(parsed.value) : parsed.value[i][1] = <<"LABEL">>}) = 2

-----------------------------------------------------------------------------
(* Claims about the standards checker                                      *)

\* no validator reported an error for any container, nor for the compose file
NoErrorReported ==
    /\ \A i \in 1..Len(standards.log) :
           /\ standards.log[i].structure_errors = <<>>
           /\ standards.log[i].poetry_valid
           /\ standards.log[i].dockerfile_errors = <<>>
    /\ standards.compose_errors = <<>>

\* C8: a run of check_containers ends by returning, not by an exception,
\* and it returns all-valid exactly when no validator reported an error for
\* any container: a valid Poetry configuration neither fails nor aborts the
\* run, an invalid one fails it.
C8_AllValidIffNoErrorReported ==
    (pc = "done" /\ disk0 # <<>>) =>
        /\ standards.raised = ""
        /\ standards.returned <=> NoErrorReported

\* C10: every container that validate_container_structure was called on
\* holds the same files with the same content as before the run.
C10_CheckedContainerUnchanged ==
    \A i \in 1..(standards.next - 1) : disk[i] = disk0[i]

\* the findings among errors that name the file at path
FindingsFor(errors, path) ==
    LET Names(e) == e.arg = path
    IN  SelectSeq(errors, Names)

\* the *.py files of container c that validate_container_structure reads
ReadFiles(c) ==
    {f \in DOMAIN c.source :
        /\ c.name \notin EXCLUDED_DIRS
        /\ has_python_code(c)
        /\ ~should_skip_directory(c.root \o Parent(f))}

\* C12: for every container checked, each Python file read that cannot be
\* parsed has exactly one finding in the result of
\* validate_container_structure.
C12_OneFindingPerUnparsableFile ==
    \A i \in 1..Len(standards.log) :
        \A f \in ReadFiles(disk0[i]) :
            ~disk0[i].source[f].ok =>
                Len(FindingsFor(standards.log[i].structure_errors, disk0[i].root \o f)) = 1

-----------------------------------------------------------------------------
(* Claims about the container validator                                    *)

\* the container directory given to main, as it was before the run
Given == disk0[1]

\* the errors validate_container_structure returned
StructureErrors == findings[1].result.value

\* the package directories of container c that validate_python_package is
\* called on
PackagePaths(c) ==
    IF c.name \in EXCLUDED_DIRS \/ ~has_python_code(c) THEN {}
    ELSE {<<"src">>}
         \cup (IF Exists(c, <<"tests", "__init__.py">>) THEN {<<"tests">>} ELSE {})

\* the *.py files of container c that validate_imports is called on
ImportsChecked(c) ==
    {f \in DOMAIN c.source :
        /\ f[Len(f)] # "__init__.py"
        /\ \E package_path \in PackagePaths(c) : IsUnder(f, package_path)
        /\ ~should_skip_directory(c.root \o Parent(f))}

\* the findings about a relative import that name the file and the line
RelativeImportFindings(errors, file, lineno) ==
    LET Names(e) ==
            /\ e.msg = "Relative import found in"
            /\ e.arg = file
            /\ ToString(lineno) \in Elements(e.detail)
    IN  SelectSeq(errors, Names)

\* C21: for every Python file validate_imports is called on and every
\* relative import-from statement of it, the result has exactly one
\* relative-import finding that names the file and the line number of the
\* statement.
C21_OneFindingPerRelativeImport ==
    findings # <<>> =>
        \A f \in ImportsChecked(Given) :
            LET src == Given.source[f]
            IN  src.ok =>
                    \A k \in 1..Len(src.imports) :
                        src.imports[k].level > 0 =>
                            Len(RelativeImportFindings(StructureErrors, Given.root \o f,
                                                       src.imports[k].lineno)) = 1

\* the __init__ modules of container c below a package directory that
\* validate_python_package is called on
InitModules(c) ==
    {f \in DOMAIN c.source :
        /\ f[Len(f)] = "__init__.py"
        /\ \E package_path \in PackagePaths(c) : IsUnder(f, package_path)
        /\ ~should_skip_directory(c.root \o Parent(f))}

MissingAllFindings(errors, file) ==
    LET Names(e) == e.msg = "Missing __all__ definition in" /\ e.arg = file
    IN  SelectSeq(errors, Names)

\* C22: every __init__ module under a checked package, the one of the root
\* package included, that has an import-from statement and no __all__
\* assignment has exactly one finding in the result; the same module with
\* an __all__ assignment has none.
C22_OneFindingPerInitWithoutAll ==
    findings # <<>> =>
        \A f \in InitModules(Given) :
            LET src == Given.source[f]
            IN  src.ok /\ src.imports # <<>> =>
                    Len(MissingAllFindings(StructureErrors, Given.root \o f))
                        = IF src.has_all THEN 0 ELSE 1

\* C23: one run of a manifest checker on a manifest that parses reports a
\* finding for each required section the manifest lacks and for each
\* required field it lacks, not only for the first one met.
C23_EveryMissingSectionAndFieldReported ==
    \A i \in 1..Len(findings) :
        LET errors == Elements(findings[i].result.value)
            m == Given.pyproject
        IN  m.parses /\ ~Exists(Given, <<"requirements.txt">>) =>
                IF findings[i].checker = "validate_poetry_config"
                THEN /\ \A k \in 1..Len(REQUIRED_SECTIONS) :
                            ~HasSection(m.tables, REQUIRED_SECTIONS[k]) =>
                                ErrFor("Missing section in pyproject.toml", REQUIRED_SECTIONS[k])
                                    \in errors
                     /\ \A k \in 1..Len(REQUIRED_FIELDS) :
                            REQUIRED_FIELDS[k] \notin m.fields =>
                                ErrFor("Missing required field in [tool.poetry]",
                                       <<REQUIRED_FIELDS[k]>>) \in errors
                ELSE \A k \in 1..Len(required_sections) :
                         ~HasSection(m.tables, required_sections[k]) =>
                             ErrFor("Missing required section in pyproject.toml",
                                    required_sections[k]) \in errors

\* container c under another name: the directory and the package
\* directory src/<name> are renamed, the content is the same
RenamedPath(path, old, name) ==
    [i \in 1..Len(path) |-> IF i = 2 /\ path[1] = "src" /\ path[2] = old THEN name ELSE path[i]]

Renamed(c, name) ==
    LET Old(path) == CHOOSE q \in DOMAIN c.source : RenamedPath(q, c.name, name) = path
    IN  [name |-> name,
         root |-> Append(Parent(c.root), name),
         tree |-> [i \in 1..Len(c.tree) |->
                      Entry(RenamedPath(c.tree[i].path, c.name, name), c.tree[i].kind)],
         source |-> [path \in {RenamedPath(q, c.name, name) : q \in DOMAIN c.source} |->
                        c.source[Old(path)]],
         pyproject |-> c.pyproject]

\* the findings with the name of the container left out of the paths
Unnamed(errors, name) ==
    [i \in 1..Len(errors) |->
        [errors[i] EXCEPT
            !.arg = [k \in 1..Len(errors[i].arg) |->
                        IF errors[i].arg[k] = name THEN "<name>" ELSE errors[i].arg[k]]]]

WithoutDockerfileFinding(errors) ==
    LET Other(e) == e.msg # "Missing required file: Dockerfile"
    IN  SelectSeq(errors, Other)

\* C24: for a container named common, tools, monitoring or
\* resource_monitor, the findings of validate_container_structure are those
\* of a container with the same content under a name that is not a utility
\* name, without the finding about the missing Dockerfile.
C24_UtilityWaivesOnlyDockerfile ==
    findings # <<>> /\ Given.name \in {"common", "tools", "monitoring", "resource_monitor"} =>
        Unnamed(StructureErrors, Given.name)
            = Unnamed(WithoutDockerfileFinding(
                          validate_container_structure(Renamed(Given, "app")).errors),
                      "app")

\* the container as it is on the disk after the run
Validated == disk[1]

\* the same container directory below another parent directory
Moved(c, parent) == [c EXCEPT !.root = Append(parent, c.name)]

\* the findings with every path made relative to the container directory
BelowRoot(errors, root) ==
    [i \in 1..Len(errors) |->
        IF startswith(errors[i].arg, root)
        THEN [errors[i] EXCEPT !.arg = SubSeq(@, Len(root) + 1, Len(@))]
        ELSE errors[i]]

\* what validate_python_package finds in src and in tests of c
PackageFindings(c) ==
    BelowRoot(validate_python_package(c, <<"src">>, c.name)
                  \o validate_python_package(c, <<"tests">>, "tests"),
              c.root)

\* C29: which directories and files validate_python_package checks depends
\* only on their paths below the package root: the content of the container
\* gives the same findings below its parent directory and below containers.
C29_FindingsIndependentOfParent ==
    (pc = "done" /\ findings # <<>>
        /\ findings[1].checker = "validate_container_structure")
    => PackageFindings(Validated) = PackageFindings(Moved(Validated, <<"containers">>))

-----------------------------------------------------------------------------
(* Claims about the container manager                                      *)

\* the container directory after the subcommand
Managed == disk[1]

\* pyproject.toml and the Dockerfile of c both carry version
BothCarry(c, version) ==
    /\ get_current_version(c).raised = ""
    /\ get_current_version(c).value = version
    /\ get_dockerfile_path(c).raised = ""
    /\ \E i \in 1..Len(c.dockerfile.lines) :
           c.dockerfile.lines[i] = label_section(version)

\* C26: a version bump or version set that ends with an error leaves
\* pyproject.toml and the Dockerfile as they were, and after
\* handle_version_command returned or exited either both files carry the
\* new version or neither of them was written.
C26_VersionFilesAllOrNothing ==
    (pc = "done" /\ manager.command = "version"
        /\ manager.args.version_action \in {"bump", "set"})
    => /\ manager.status # 0 => disk = disk0 /\ manager.written = <<>>
       /\ \/ BothCarry(Managed, manager.new_version)
          \/ manager.written = <<>>

\* the commands the build subcommand issued, with their outcomes
Issued == manager.issued

\* the place of an issued command in the order build, tag latest, push
\* version, push latest
Rank(run) ==
    IF run.cmd.docker = "build" THEN 1
    ELSE IF run.cmd.docker = "tag" THEN 2
    ELSE IF run.cmd.tag # LATEST THEN 3
    ELSE 4

\* the ranks build_container owes for its arguments when nothing fails
OwedRanks(args) ==
    {1} \cup (IF args.tag_latest THEN {2} ELSE {})
        \cup (IF args.push THEN {3} ELSE {})
        \cup (IF args.push /\ args.tag_latest THEN {4} ELSE {})

\* C27: build_container issues its commands in the order build, tag latest,
\* push version, push latest (all that its arguments ask for when none
\* fails); a push is issued only after the build succeeded and, when latest
\* tagging is on, after the tag succeeded; the first command that fails ends
\* the run with a failure status and no later command is issued.
C27_BuildCommandsInOrder ==
    (pc = "done" /\ manager.command = "build")
    => /\ \A i, j \in 1..Len(Issued) : i < j => Rank(Issued[i]) < Rank(Issued[j])
       /\ \A i \in 1..Len(Issued) : Rank(Issued[i]) \in OwedRanks(manager.args)
       /\ manager.status = 0
              => {Rank(Issued[i]) : i \in 1..Len(Issued)} = OwedRanks(manager.args)
       /\ \A j \in 1..Len(Issued) :
              Issued[j].cmd.docker = "push"
              => /\ \E i \in 1..(j - 1) :
                        Rank(Issued[i]) = 1 /\ Issued[i].outcome = "ok"
                 /\ manager.args.tag_latest
                        => \E i \in 1..(j - 1) :
                               Rank(Issued[i]) = 2 /\ Issued[i].outcome = "ok"
       /\ \A i \in 1..Len(Issued) :
              Issued[i].outcome # "ok" => i = Len(Issued) /\ manager.status # 0

\* a run with push and latest tagging whose tag command failed after a
\* build that succeeded
C27_Witness ==
    /\ pc = "done"
    /\ manager.command = "build"
    /\ manager.args.push
    /\ manager.args.tag_latest
    /\ Len(Issued) = 2
    /\ Issued[1].outcome = "ok"
    /\ Issued[2].outcome = "CalledProcessError"
    /\ manager.status = 1

-----------------------------------------------------------------------------
(* Claims about the secret checker                                         *)

\* what check_file returned
SecretFindings == findings[1].result.value

\* the value of a match that is compared with the safe list: its first
\* group, or the matched text for a pattern without groups
MatchedValue(match) ==
    IF match.groups # <<>> THEN match.groups[1] ELSE match.whole[1]

\* line line_num of the file matches pattern_type with a value outside the
\* safe list
UnsafeMatch(pattern_type, line_num) ==
    /\ ~is_comment(content[line_num])
    /\ \E k \in 1..Len(finditer(pattern_type, content[line_num])) :
           ~is_safe_value(pattern_type,
                MatchedValue(finditer(pattern_type, content[line_num])[k]))

\* C28: check_file returns a finding for every non-comment line of the file
\* that matches one of the configured patterns with a value outside the safe
\* list, whatever matched on the lines before it.
C28_FindingForEveryUnsafeLine ==
    (pc = "done" /\ findings # <<>> /\ findings[1].checker = "check_file")
    => \A line_num \in 1..Len(content) :
           \A p \in 1..Len(patterns) :
               UnsafeMatch(patterns[p], line_num)
               => \E i \in 1..Len(SecretFindings) :
                      /\ SecretFindings[i].type = patterns[p]
                      /\ SecretFindings[i].line = line_num

-----------------------------------------------------------------------------
(* Claims about the health check                                           *)

\* the status queries check_container_health has made
Queries == validator.queries

\* the messages check_container_health appends
HealthMessages ==
    {"Container health check failed", "Container health check timed out",
     "Error checking container health"}

\* self.errors is what it was before the call with one health error added
OneErrorAppended ==
    \E prior \in PriorErrors :
        /\ Len(validator.errors) = Len(prior) + 1
        /\ SubSeq(validator.errors, 1, Len(prior)) = prior
        /\ validator.errors[Len(validator.errors)].msg \in HealthMessages

\* the query showed the container Up and (unhealthy), and not (healthy)
ShowsUnhealthy(q) ==
    ~q.raises /\ q.returncode = 0 /\ q.up /\ q.unhealthy /\ ~q.healthy

\* C30: check_container_health returns True only if a status query
\* succeeded and its output showed the container both Up and (healthy);
\* every other outcome returns False with exactly one error appended, and
\* an (unhealthy) observation ends the polling at once, with no query
\* after it.
C30_HealthyOnlyWhenSeenHealthy ==
    pc \in {"check_container_health", "done"}
    => /\ (validator.returned /\ validator.result)
              => /\ Queries # <<>>
                 /\ ~Queries[Len(Queries)].raises
                 /\ Queries[Len(Queries)].returncode = 0
                 /\ Queries[Len(Queries)].up
                 /\ Queries[Len(Queries)].healthy
       /\ (validator.returned /\ ~validator.result) => OneErrorAppended
       /\ \A i \in 1..Len(Queries) :
              ShowsUnhealthy(Queries[i])
              => /\ i = Len(Queries)
                 /\ validator.returned
                 /\ ~validator.result
                 /\ OneErrorAppended

\* the container is seen starting and then unhealthy: the call has
\* returned False after the second query
C30_Witness ==
    /\ pc = "done"
    /\ Len(Queries) = 2
    /\ poll_result(Queries[1]) = "starting"
    /\ ShowsUnhealthy(Queries[2])
    /\ validator.returned
    /\ ~validator.result

-----------------------------------------------------------------------------
(* Claims about the compose checkers                                       *)

\* C11: no exception leaves check_networks, check_dependencies or
\* check_service_config: on every compose mapping that has a services key,
\* each of them hands back a list of findings.
C11_NoCheckerRaises ==
    \A i \in 1..Len(findings) : findings[i].result.raised = ""

\* the findings among errors that name the service
NamingService(errors, name) ==
    LET Names(e) == e.arg[1] = name
    IN  SelectSeq(errors, Names)

\* the number of findings check_dependencies owes to a service: one for a
\* depends_on in list form, one for each entry of a depends_on in map form
\* that has no condition key
OwedDependencyFindings(config) ==
    IF config.kind = "dict" /\ Has(config, Lit("depends_on"))
    THEN LET deps == Get(config, Lit("depends_on"))
             WithoutCondition(i) ==
                 ~(deps.items[i][2].kind = "dict" /\ Has(deps.items[i][2], Lit("condition")))
         IN  IF deps.kind = "list" THEN 1
             ELSE IF deps.kind = "dict"
             THEN Cardinality({i \in 1..Len(deps.items) : WithoutCondition(i)})
             ELSE 0
    ELSE 0

\* C20: the result of check_dependencies has, for every service, one finding
\* if its depends_on is a list, and one finding for each dependency of a
\* depends_on in map form whose entry has no condition key; so none for a
\* service all of whose dependencies have a condition.
C20_OneFindingPerUnconditionedDependency ==
    \A i \in 1..Len(findings) :
        findings[i].checker = "check_dependencies" =>
            \A k \in 1..Len(service_items(compose)) :
                Len(NamingService(findings[i].result.value, service_items(compose)[k][1]))
                    = OwedDependencyFindings(service_items(compose)[k][2])

-----------------------------------------------------------------------------
(* Claims about the compose validator                                      *)

\* the keyword stands in the lower-cased name, offset characters from its
\* start
KeywordAt(name, keyword, offset) ==
    /\ offset + Len(keyword) <= Len(name)
    /\ \A n \in 1..Len(keyword) : lower(name)[offset + n] = keyword[n]

ContainsKeyword(name) ==
    \E k \in 1..Len(python_service_indicators) :
        \E offset \in 0..Len(name) : KeywordAt(name, python_service_indicators[k], offset)

\* C16: is_python_service answers true exactly for the names whose
\* lower-cased form has a keyword of the list somewhere inside it: true for
\* worker-api, false for gateway.
C16_PythonServiceIffKeywordInside ==
    \A i \in 1..Len(findings) :
        /\ findings[i].python_service <=> ContainsKeyword(findings[i].service)
        /\ findings[i].service = WorkerApi => findings[i].python_service
        /\ findings[i].service = Gateway => ~findings[i].python_service

C16_Witness ==
    /\ findings # <<>>
    /\ findings[1].service = WorkerApi
    /\ findings[1].python_service

\* the service validated and its configuration
ValidatedName == compose.items[1][1]

ValidatedConfig == compose.items[1][2]

PythonPathFinding(name) ==
    ErrFor("Python service should define PYTHONPATH environment variable", name)

\* the configuration has no PYTHONPATH entry: no environment, or one
\* without PYTHONPATH
NoPythonPathEntry(config) ==
    \/ ~Has(config, Lit("environment"))
    \/ LET env_vars == Get(config, Lit("environment"))
       IN  \/ /\ env_vars.kind = "list"
              /\ \A k \in 1..Len(env_vars.elems) :
                     ~contains(env_vars.elems[k].str, Lit("PYTHONPATH"))
           \/ /\ env_vars.kind = "dict"
              /\ ~Has(env_vars, Lit("PYTHONPATH"))

VolumeMessages ==
    { "Python service should mount pyproject.toml/poetry.lock for development",
      "  Consider adding: './containers/<name>/pyproject.toml:/app/pyproject.toml'" }

\* the findings about the build or the environment
BuildOrEnvironmentFindings(errors) ==
    LET NotVolume(e) == e.msg \notin VolumeMessages
    IN  SelectSeq(errors, NotVolume)

\* C17: for a service the heuristic takes for a Python service and whose
\* configuration has no PYTHONPATH entry, validate_compose_service returns
\* the PYTHONPATH finding; for worker-api built from
\* ./containers/worker-api it is the only finding about the build or the
\* environment.
C17_PythonPathFindingWhenNoEntry ==
    \A i \in 1..Len(findings) :
        ContainsKeyword(ValidatedName) /\ NoPythonPathEntry(ValidatedConfig) =>
            /\ PythonPathFinding(ValidatedName) \in Elements(findings[i].result.value)
            /\ /\ ValidatedName = WorkerApi
               /\ Has(ValidatedConfig, Lit("build"))
               /\ Get(ValidatedConfig, Lit("build"))
                      = DictOf(<<"context">>, << <<YStr(ContainerContext(WorkerApi))>> >>)
               => BuildOrEnvironmentFindings(findings[i].result.value)
                      = <<PythonPathFinding(WorkerApi)>>

\* the build mapping has no Poetry-related arg: no args, or args without a
\* key that contains 'poetry'
NoPoetryArg(build) ==
    \/ ~Has(build, Lit("args"))
    \/ LET args == Get(build, Lit("args"))
       IN  /\ args.kind = "dict"
           /\ \A k \in 1..Len(args.items) : ~contains(lower(args.items[k][1]), Lit("poetry"))

\* C18: for a service the heuristic takes for a Python service and whose
\* build mapping has no Poetry-related arg, validate_compose_service
\* returns the finding about the Poetry-related build args.
C18_PoetryArgsFindingWhenNoArg ==
    \A i \in 1..Len(findings) :
        /\ ContainsKeyword(ValidatedName)
        /\ Has(ValidatedConfig, Lit("build"))
        /\ Get(ValidatedConfig, Lit("build")).kind = "dict"
        /\ NoPoetryArg(Get(ValidatedConfig, Lit("build")))
        => ErrFor("Python service should include Poetry-related build args", ValidatedName)
               \in Elements(findings[i].result.value)

BuildContextMessages ==
    { "Build context should be './containers/<name>' or '.'",
      "When using component context, dockerfile should be 'Dockerfile'",
      "When using root context, dockerfile should include component path" }

DevContextMessage ==
    "Dev container build context should be './containers/dev-environment', '.' or '../..'"

NoFindingAmong(errors, messages) == \A k \in 1..Len(errors) : errors[k].msg \notin messages

\* the build mapping is one that the rule of a service other than dev
\* accepts
AcceptedBuild(name, build) ==
    LET context == Get(build, Lit("context"))
        no_dockerfile == ~Has(build, Lit("dockerfile"))
        dockerfile == Get(build, Lit("dockerfile"))
    IN  \/ /\ context = YStr(<<"./containers/">> \o name)
           /\ no_dockerfile \/ dockerfile = YStr(<<"Dockerfile">>)
        \/ /\ context = YStr(<<".">>)
           /\ no_dockerfile \/ startswith(dockerfile.str, <<"containers/">> \o name \o <<"/">>)

=============================================================================
